---- MODULE Spec2Model ----
(***************************************************************************)
(* QuickButtons: the action execution and live-status subsystem.           *)
(*                                                                         *)
(*   - probe buttons (ping_handler.py and its structural twins             *)
(*     http_test_handler.py, network_speed_handler.py)                     *)
(*   - the pomodoro button (pomodoro_handler.py)                           *)
(*   - the timer button (timer_manager.py)                                 *)
(*   - the process session (output_overlay.py)                             *)
(*   - the action dispatcher (button_handler_factory.py,                   *)
(*     button_manager.py)                                                  *)
(*                                                                         *)
(* Time is counted in whole seconds (units of 20 s for the probe button,  *)
(* of 100 ms for the dispatcher).  The Tk scheduler (after /               *)
(* after_cancel) is a list of pending callbacks kept in firing order; a    *)
(* callback whose delay has run out fires before time moves on.            *)
(***************************************************************************)
EXTENDS Integers, Sequences, FiniteSets, TLC

VARIABLES
    ping,        \* state dict of create_ping_button
    ping_label,  \* text shown on the ping button (btn.config(text=...))
    ping_thread, \* position of every run_ping worker thread
    ping_after,  \* pending btn.after callbacks of the ping button
    ping_hist,   \* history: activations started, last update_label delivery
    probe_kind,  \* which probe the button runs: "ping" or "network_speed"
    generation,  \* which button of the probe's cfg is in the grid: the
                 \* first, or the one refresh_grid built in its place, ...
    discarded,   \* the state dicts of the buttons refresh_grid destroyed
    ping_owner   \* the button whose state dict each worker thread closes
                 \* over

vars_grid == <<generation, discarded, ping_owner>>

vars_ping == <<ping, ping_label, ping_thread, ping_after, ping_hist,
               probe_kind, vars_grid>>

VARIABLES
    pomodoro,        \* state dict of create_pomodoro_button
    pomodoro_label,  \* text shown on the pomodoro button
    pomodoro_after,  \* pending btn.after callbacks of the pomodoro button
    auto_advance,    \* cfg["auto_advance"]
    pomodoro_armed,  \* a <Button-1> was just delivered: the next press within
                     \* the double-click time is delivered as <Double-Button-1>
    pomodoro_hist    \* history of the run

vars_pomodoro == <<pomodoro, pomodoro_label, pomodoro_after, auto_advance,
                   pomodoro_armed, pomodoro_hist>>

VARIABLES
    timer,          \* state dict of create_timer_button
    timer_label,    \* text shown on the timer button
    timer_after,    \* pending btn.after callbacks of the timer button
    total_seconds,  \* the parsed cfg["timer_duration"]
    timer_armed,    \* a <Button-1> was just delivered (see pomodoro_armed)
    timer_hist      \* history of the run since the last start_timer

vars_timer == <<timer, timer_label, timer_after, total_seconds, timer_armed,
                timer_hist>>

VARIABLES
    overlay,        \* the OutputOverlay object: proc, _error_occurred, ...
    overlay_text,   \* lines of the text widget
    overlay_after,  \* pending self.after callbacks of the overlay
    overlay_ui,     \* where the UI thread is inside OutputOverlay code
    reader,         \* the read_output thread: position and locals
    process,        \* the external process and its stdout pipe
    overlay_hist    \* history of the session

vars_overlay == <<overlay, overlay_text, overlay_after, overlay_ui, reader,
                  process, overlay_hist>>

VARIABLES
    _handlers,       \* ButtonHandlerFactory._handlers: the types loaded
    import_fails,    \* handler modules whose import raises ImportError
    app_after,       \* pending self.app.after(100, run_script) callbacks
    dispatch_hist,   \* what the last run_script did
    managers,        \* ButtonManager.*_manager: the types whose manager is
                     \* loaded
    instances,       \* how many times each handler class was constructed
    lookup_hist      \* what the last direct get_handler call did

vars_dispatch == <<_handlers, import_fails, app_after, dispatch_hist,
                   managers, instances, lookup_hist>>

VARIABLES
    python_executable,  \* config_data["python_executable"]: configured or not
    settings_dialog,    \* SettingsManager.settings_dialog exists
    started,            \* processes, overlays and threads started so far
    execute_hist        \* what the last execute call was given and did

vars_execute == <<python_executable, settings_dialog, started, execute_hist>>

VARIABLES
    test_url,     \* cfg["test_url"] of the HTTP test button, once created
    http,         \* state dict of create_http_test_button
    http_label,   \* text shown on the HTTP test button
    http_thread,  \* position of the run_http_test worker thread
    http_after,   \* pending btn.after callbacks of the HTTP test button
    http_hist     \* history: what the requests of the last run did

vars_http == <<test_url, http, http_label, http_thread, http_after,
               http_hist>>

\* what an action of one component leaves alone
vars_not_ping ==
    <<vars_pomodoro, vars_timer, vars_overlay, vars_dispatch, vars_execute,
      vars_http>>
vars_not_pomodoro ==
    <<vars_ping, vars_timer, vars_overlay, vars_dispatch, vars_execute,
      vars_http>>
vars_not_timer ==
    <<vars_ping, vars_pomodoro, vars_overlay, vars_dispatch, vars_execute,
      vars_http>>
vars_not_overlay ==
    <<vars_ping, vars_pomodoro, vars_timer, vars_dispatch, vars_execute,
      vars_http>>
vars_not_dispatch ==
    <<vars_ping, vars_pomodoro, vars_timer, vars_overlay, vars_execute,
      vars_http>>
vars_not_execute ==
    <<vars_ping, vars_pomodoro, vars_timer, vars_overlay, vars_dispatch,
      vars_http>>
vars_not_http ==
    <<vars_ping, vars_pomodoro, vars_timer, vars_overlay, vars_dispatch,
      vars_execute>>

vars == <<ping, ping_label, ping_thread, ping_after, ping_hist, probe_kind,
          generation, discarded, ping_owner,
          pomodoro, pomodoro_label, pomodoro_after, auto_advance,
          pomodoro_armed, pomodoro_hist,
          timer, timer_label, timer_after, total_seconds, timer_armed,
          timer_hist,
          overlay, overlay_text, overlay_after, overlay_ui, reader, process,
          overlay_hist,
          _handlers, import_fails, app_after, dispatch_hist,
          managers, instances, lookup_hist,
          python_executable, settings_dialog, started, execute_hist,
          test_url, http, http_label, http_thread, http_after, http_hist>>

(***************************************************************************)
(* Bounds                                                                  *)
(***************************************************************************)
\* number of probe activations (worker threads ever started) explored
MaxActivations == 2

\* number of user gestures on the pomodoro button explored
MaxGestures == 4

\* longest cfg["timer_duration"] explored, seconds
MaxDuration == 5

\* number of lines the external process prints at most
MaxLines == 2

\* number of clicks whose delayed run_script may be pending at once
MaxPendingClicks == 2

\* inputs the user sends to one process
MaxInputs == 1

\* number of times refresh_grid rebuilds the buttons
MaxRefreshes == 1

\* number of execute calls explored
MaxExecutions == 3

\* number of HTTP tests started
MaxTests == 2

\* cfg of the pomodoro button, minutes
WorkMinutes == 1
ShortBreakMinutes == 1
LongBreakMinutes == 2

(***************************************************************************)
(* The scheduler: btn.after(ms, f) / btn.after_cancel(id)                  *)
(***************************************************************************)
\* a handle that is None in the source
None == 0

\* a result slot that is None in the source
NoResults == <<>>

\* handles are after#1, after#2, ...; enough of them for every callback
\* that can be pending or remembered at once
Handles == 1..12

IdsOf(q) == { q[i].id : i \in 1..Len(q) }

\* Tk never hands out a handle twice: a new handle differs from every
\* pending one and from every one still remembered in a state dict
NewHandle(q, held) ==
    CHOOSE h \in Handles : /\ h \notin IdsOf(q) \cup held
                           /\ \A k \in Handles : k < h => k \in IdsOf(q) \cup held

\* after(delay, f): the timer list is kept sorted by due time, a new
\* entry goes behind every entry that is due no later
after(q, h, f, delay) ==
    LET k == Cardinality({ i \in 1..Len(q) : q[i].delay <= delay })
    IN  SubSeq(q, 1, k) \o << [id |-> h, f |-> f, delay |-> delay] >>
                        \o SubSeq(q, k + 1, Len(q))

\* after_cancel(id): a handle that already fired cancels nothing
after_cancel(q, h) == SelectSeq(q, LAMBDA e : e.id # h)

\* the callback the event loop runs next, if any is due
Due(q) == Len(q) > 0 /\ q[1].delay = 0

\* one second passes for every pending callback
Elapse(q) == [ i \in 1..Len(q) |-> [ q[i] EXCEPT !.delay = @ - 1 ] ]

(***************************************************************************)
(* Probe button: ping_handler.create_ping_button                           *)
(***************************************************************************)
\* auto-clear delay of a probe result (btn.after(60000, ...)), in the
\* probe button's unit of time, 20 seconds
ClearDelay == 3

\* round-trip times a probe may measure, ms
PingTimes == {0, 12}

Workers == 1..MaxActivations

\* the outcomes of the blocking operation of run_ping: the ping command
\* answers, answers with nothing to parse, reports the host unreachable;
\* the command is missing or times out and the socket connects or does not;
\* anything else is raised
PingOutcomes == {"reachable", "unparsed", "unreachable", "socket_ok",
                 "socket_failed", "error"}

\* the outcomes of the blocking operation of run_speed_test: the speedtest
\* module measures or raises; it is not installed and the speedtest command
\* measures, prints only part of the figures, fails, prints what float()
\* rejects, is missing or times out
SpeedOutcomes == {"measured", "library_error", "cli_measured", "cli_partial",
                  "cli_failed", "cli_unparsable", "cli_missing"}

ProbeKinds == {"ping", "network_speed"}

Outcomes(kind) == IF kind = "ping" THEN PingOutcomes ELSE SpeedOutcomes

\* the outcomes in which the blocking operation failed
Failures(kind) ==
    IF kind = "ping"
    THEN {"unparsed", "unreachable", "socket_failed", "error"}
    ELSE {"library_error", "cli_failed", "cli_unparsable", "cli_missing"}

\* what the try block of a worker did: the tuple it wrote into the result
\* slot, if any, and whether an exception leaves the block
Wrote(results) == [written |-> TRUE, results |-> results, raised |-> FALSE]

\* "except Exception" that lets the exception through
outer_except_reraises(w) ==
    [written |-> FALSE, results |-> NoResults, raised |-> TRUE]

\* run_ping, "except Exception as e": state["results"] = (None, False, host)
outer_except(w) == Wrote(<<None, FALSE, w>>)

\* run_ping, try block.  A result is (ping_time, success, host); the host
\* is constant and its place holds the worker that wrote the result
run_ping_try(outcome, t, w) ==
    CASE outcome \in {"reachable", "socket_ok"} -> Wrote(<<t, TRUE, w>>)
      [] outcome \in {"unparsed", "unreachable", "socket_failed"} ->
            Wrote(<<None, FALSE, w>>)
      [] OTHER -> outer_except(w)

\* run_speed_test, "except Exception as e": (None, None, None)
speed_outer_except(w) == Wrote(<<None, None, w>>)

\* run_speed_test, try block.  A result is (download, upload, ping); the
\* place of ping holds the worker that wrote the result.  The fallback
\* self._estimate_speed() names a function local to
\* create_network_speed_button, not a method: the call raises
\* AttributeError inside the try.  The figures measured are 50 and 10
\* Mbit/s.
run_speed_test_try(outcome, w) ==
    CASE outcome \in {"measured", "cli_measured"} -> Wrote(<<50, 10, w>>)
      [] outcome = "cli_partial" -> Wrote(<<None, 10, w>>)
      [] outcome = "cli_failed" -> Wrote(<<None, None, w>>)
      [] OTHER -> speed_outer_except(w)

\* the structured failed result of a probe
FailedResult(kind, w) ==
    IF kind = "ping" THEN <<None, FALSE, w>> ELSE <<None, None, w>>

\* "if success" of ping_handler.update_label, "if download and upload" of
\* network_speed_handler.update_label
succeeded(kind, results) ==
    IF kind = "ping" THEN results[2]
    ELSE results[1] # None /\ results[2] # None

\* text of the button: update_label of ping_handler and of
\* network_speed_handler
ping_render(state) ==
    IF state.running THEN [kind |-> "working", ping_time |-> 0, by |-> 0]
    ELSE IF state.results # NoResults
         THEN IF succeeded(probe_kind, state.results)
              THEN [kind |-> "result", ping_time |-> state.results[1],
                    by |-> state.results[3]]
              ELSE [kind |-> "failed", ping_time |-> 0, by |-> state.results[3]]
         ELSE [kind |-> "orig_label", ping_time |-> 0, by |-> 0]

\* cfg.get("ping_host", "8.8.8.8")
Host == "8.8.8.8"

\* a button text: its first line and, on the second line, a word or a
\* number of milliseconds written with so many decimals and "ms" behind it
Text(first, word, ms, decimals) ==
    [first |-> first, word |-> word, ms |-> ms, decimals |-> decimals]

\* update_label of ping_handler: f"{ping_time:.0f}ms" below 1 ms,
\* f"{ping_time:.1f}ms" from 1 ms on
ping_str(ping_time) == IF ping_time < 1 THEN 0 ELSE 1

\* update_label of ping_handler: the text given to btn.config for what the
\* button shows
ping_text(label) ==
    CASE label.kind = "working" -> Text("Pinging...", "", 0, 0)
      [] label.kind = "result" ->
            Text(Host, "ms", label.ping_time, ping_str(label.ping_time))
      [] label.kind = "failed" -> Text(Host, "Failed", 0, 0)
      [] OTHER -> Text("orig_label", "", 0, 0)

\* state = {"running": False, "job": None, "results": None, "clear_job":
\* None} of create_ping_button
NewState == [running |-> FALSE, job |-> None, results |-> NoResults,
             clear_job |-> None]

\* the state dict of button g: the one in the grid, or a destroyed one
StateOf(g) == IF g = generation THEN ping ELSE discarded[g]

\* an assignment to the state dict of button g
Store(g, s) ==
    IF g = generation
    THEN ping' = s /\ discarded' = discarded
    ELSE ping' = ping /\ discarded' = [discarded EXCEPT ![g] = s]

\* the handles remembered in the state dicts
HeldHandles ==
    {ping.clear_job} \cup { discarded[g].clear_job : g \in DOMAIN discarded }

LiveWorkers ==
    { w \in Workers : ping_thread[w] \notin {"unborn", "exited", "raised"} }

\* the guard of start_ping: a click while running returns at once
start_guard(state) == state.running

\* start_ping without "state['results'] = None"
start_ping_keeps_results ==
    /\ UNCHANGED vars_not_ping
    /\ IF start_guard(ping)
       THEN UNCHANGED vars_ping
       ELSE
         /\ ping_hist.started < MaxActivations
         /\ LET w == ping_hist.started + 1
                q == IF ping.clear_job # None
                     THEN after_cancel(ping_after, ping.clear_job)
                     ELSE ping_after
                s == [ping EXCEPT !.clear_job = None, !.running = TRUE]
            IN  /\ ping_after' = q
                /\ ping' = s
                /\ ping_label' = ping_render(s)
                /\ ping_thread' = [ping_thread EXCEPT ![w] = "probe"]
                /\ ping_hist' = [ping_hist EXCEPT !.started = w]
                /\ ping_owner' = [ping_owner EXCEPT ![w] = generation]
                /\ UNCHANGED <<probe_kind, generation, discarded>>

\* on_ping_click -> start_ping
start_ping ==
    /\ UNCHANGED vars_not_ping
    /\ IF start_guard(ping)
       THEN UNCHANGED vars_ping
       ELSE
         /\ ping_hist.started < MaxActivations
         /\ LET w == ping_hist.started + 1
                q == IF ping.clear_job # None
                     THEN after_cancel(ping_after, ping.clear_job)
                     ELSE ping_after
                s == [ping EXCEPT !.clear_job = None, !.running = TRUE,
                                  !.results = NoResults]
            IN  /\ ping_after' = q
                /\ ping' = s
                /\ ping_label' = ping_render(s)
                /\ ping_thread' = [ping_thread EXCEPT ![w] = "probe"]
                /\ ping_hist' = [ping_hist EXCEPT !.started = w]
                /\ ping_owner' = [ping_owner EXCEPT ![w] = generation]
                /\ UNCHANGED <<probe_kind, generation, discarded>>

\* the state after the try block of worker w did r.  The history keeps,
\* of the worker that left its try block last, whether the blocking
\* operation failed and what kind of result was written
Tried(w, outcome, r) ==
    /\ Store(ping_owner[w],
             IF r.written
             THEN [StateOf(ping_owner[w]) EXCEPT !.results = r.results]
             ELSE StateOf(ping_owner[w]))
    /\ ping_hist' = [ping_hist EXCEPT
          !.tried = w,
          !.blocking = IF outcome \in Failures(probe_kind) THEN "failed"
                       ELSE "ok",
          !.wrote = IF ~r.written THEN "nothing"
                    ELSE IF r.results = FailedResult(probe_kind, w)
                         THEN "failed_result" ELSE "result",
          !.escaping = IF r.raised THEN @ \cup {w} ELSE @]
    /\ ping_thread' = [ping_thread EXCEPT ![w] = "finally_running"]
    /\ UNCHANGED <<ping_label, ping_after, probe_kind, generation,
                   ping_owner>>
    /\ UNCHANGED vars_not_ping

\* run_ping and run_speed_test, try block: the blocking probe ends and
\* what comes of it is written into the result slot
run_ping_probe(w) ==
    /\ ping_thread[w] = "probe"
    /\ \E outcome \in Outcomes(probe_kind) : \E t \in PingTimes :
          /\ (outcome \in Failures(probe_kind) => t = 0)
          /\ IF probe_kind = "ping"
             THEN Tried(w, outcome, run_ping_try(outcome, t, w))
             ELSE Tried(w, outcome, run_speed_test_try(outcome, w))

\* run_ping, finally: state["running"] = False
run_ping_clear_running(w) ==
    /\ ping_thread[w] = "finally_running"
    /\ Store(ping_owner[w], [StateOf(ping_owner[w]) EXCEPT !.running = FALSE])
    /\ ping_thread' = [ping_thread EXCEPT ![w] = "finally_after"]
    /\ UNCHANGED <<ping_label, ping_after, ping_hist, probe_kind,
                   generation, ping_owner>>
    /\ UNCHANGED vars_not_ping

\* run_ping, finally: btn.after(0, update_label)
run_ping_post(w) ==
    /\ ping_thread[w] = "finally_after"
    /\ ping_after' = after(ping_after,
                           NewHandle(ping_after, HeldHandles),
                           [name |-> "update_label", by |-> w], 0)
    /\ ping_thread' = [ping_thread EXCEPT ![w] = "finally_cancel"]
    /\ UNCHANGED <<ping, ping_label, ping_hist, probe_kind, vars_grid>>
    /\ UNCHANGED vars_not_ping

\* run_ping, finally: if state["clear_job"]: btn.after_cancel(...)
run_ping_cancel(w) ==
    /\ ping_thread[w] = "finally_cancel"
    /\ ping_after' = IF StateOf(ping_owner[w]).clear_job # None
                     THEN after_cancel(ping_after,
                                       StateOf(ping_owner[w]).clear_job)
                     ELSE ping_after
    /\ ping_thread' = [ping_thread EXCEPT ![w] = "finally_schedule"]
    /\ UNCHANGED <<ping, ping_label, ping_hist, probe_kind, vars_grid>>
    /\ UNCHANGED vars_not_ping

\* run_ping, finally: state["clear_job"] = btn.after(60000, clear_results)
run_ping_schedule(w) ==
    /\ ping_thread[w] = "finally_schedule"
    /\ LET h == NewHandle(ping_after, HeldHandles)
       IN  /\ ping_after' = after(ping_after, h,
                                  [name |-> "clear_results", by |-> w],
                                  ClearDelay)
           /\ Store(ping_owner[w],
                    [StateOf(ping_owner[w]) EXCEPT !.clear_job = h])
    /\ ping_thread' = [ping_thread EXCEPT ![w] =
                          IF w \in ping_hist.escaping THEN "raised"
                          ELSE "exited"]
    /\ UNCHANGED <<ping_label, ping_hist, probe_kind, generation,
                   ping_owner>>
    /\ UNCHANGED vars_not_ping

\* btn.config(text=...) of update_label, called by a callback of button g:
\* the text of the button in the grid changes; a destroyed button has no
\* widget command left and btn.config raises TclError
Configured(g, state) ==
    IF g = generation THEN ping_render(state) ELSE ping_label

\* the event loop runs a posted update_label
ping_update_label ==
    /\ Due(ping_after)
    /\ ping_after[1].f.name = "update_label"
    /\ ping_after' = Tail(ping_after)
    /\ LET g == ping_owner[ping_after[1].f.by]
       IN  /\ ping_label' = Configured(g, StateOf(g))
           /\ ping_hist' = [ping_hist EXCEPT
                 !.posted_by = ping_after[1].f.by,
                 !.started_then = ping_hist.started,
                 !.tcl_error = @ \/ g # generation]
    /\ UNCHANGED <<ping, ping_thread, probe_kind, vars_grid>>
    /\ UNCHANGED vars_not_ping

\* the event loop runs clear_results
clear_results ==
    /\ Due(ping_after)
    /\ ping_after[1].f.name = "clear_results"
    /\ LET q == Tail(ping_after)
           g == ping_owner[ping_after[1].f.by]
           s == [StateOf(g) EXCEPT !.results = NoResults, !.clear_job = None]
       IN  /\ ping_after' = IF StateOf(g).clear_job # None
                            THEN after_cancel(q, StateOf(g).clear_job)
                            ELSE q
           /\ Store(g, s)
           /\ ping_label' = Configured(g, s)
           /\ ping_hist' = [ping_hist EXCEPT
                 !.tcl_error = @ \/ g # generation]
    /\ UNCHANGED <<ping_thread, probe_kind, generation, ping_owner>>
    /\ UNCHANGED vars_not_ping

\* 20 seconds go by; nothing is due
ping_time_passes ==
    /\ ~Due(ping_after)
    /\ Len(ping_after) > 0
    /\ ping_after' = Elapse(ping_after)
    /\ UNCHANGED <<ping, ping_label, ping_thread, ping_hist, probe_kind,
                   vars_grid>>
    /\ UNCHANGED vars_not_ping

\* ButtonManager.refresh_grid: every widget of the grid is destroyed and a
\* button is created anew for every cfg.  destroy() deletes the Tcl commands
\* of the callbacks the old button had pending, which therefore never run;
\* its state dict lives on in the closures of its workers
refresh_grid ==
    /\ generation <= MaxRefreshes
    /\ discarded' = [discarded EXCEPT ![generation] = ping]
    /\ generation' = generation + 1
    /\ ping' = NewState
    /\ ping_label' = [kind |-> "orig_label", ping_time |-> 0, by |-> 0]
    /\ ping_after' = SelectSeq(ping_after,
                         LAMBDA e : ping_owner[e.f.by] # generation)
    /\ UNCHANGED <<ping_thread, ping_hist, probe_kind, ping_owner>>
    /\ UNCHANGED vars_not_ping

\* the next step of worker thread w, whichever it is
run_ping(w) ==
    \/ run_ping_probe(w)
    \/ run_ping_clear_running(w)
    \/ run_ping_post(w)
    \/ run_ping_cancel(w)
    \/ run_ping_schedule(w)

NextPing ==
    \/ start_ping
    \/ \E w \in Workers : run_ping_probe(w)
    \/ \E w \in Workers : run_ping_clear_running(w)
    \/ \E w \in Workers : run_ping_post(w)
    \/ \E w \in Workers : run_ping_cancel(w)
    \/ \E w \in Workers : run_ping_schedule(w)
    \/ ping_update_label
    \/ clear_results
    \/ ping_time_passes

\* the probe button used while the grid is rebuilt
NextGrid == NextPing \/ refresh_grid

(***************************************************************************)
(* Properties of the probe button                                          *)
(***************************************************************************)
\* C1: at most one worker thread of a probe button is alive at any time.
C1_OneWorkerAlive == Cardinality(LiveWorkers) <= 1

\* C6: a worker whose probe has been restarted never leaves its result in
\* the slot of the newer activation, and the button never shows it: a
\* result held or shown is the result of the latest activation.
C6_StaleResultDiscarded ==
    /\ ping.results # NoResults => ping.results[3] = ping_hist.started
    /\ ping_label.kind \in {"result", "failed"} =>
          ping_label.by = ping_hist.started

\* C6, the case: the update_label posted by an older worker ran after a
\* newer activation had started, and the button shows the newer result.
C6_StaleDelivery ==
    /\ ping_hist.posted_by # 0
    /\ ping_hist.posted_by < ping_hist.started_then
    /\ ping_label.kind = "result"
    /\ ping_label.by = ping_hist.started

\* C29: the running flag of a probe is true exactly when one worker thread
\* of the probe is in flight; while the flag is false no worker is alive.
C29_RunningIffOneWorker ==
    /\ ping.running <=> Cardinality(LiveWorkers) = 1
    /\ ~ping.running => LiveWorkers = {}

\* C21: when the button owning a probe is destroyed by a grid refresh while
\* its worker is in flight, the completion of the worker is a safe no-op: no
\* exception leaves the worker thread, no callback touches the destroyed
\* widget, and the button created in its place keeps the state it was
\* created with until it is activated itself.
C21_CompletionOfDestroyedIsNoOp ==
    /\ \A w \in Workers : ping_thread[w] # "raised"
    /\ ~ping_hist.tcl_error
    /\ (\A w \in Workers : ping_owner[w] # generation) =>
          /\ ping = NewState
          /\ ping_label.kind = "orig_label"

\* C23: a ping button shows the host and, below it, the round trip as
\* "Nms" after a successful probe (12 ms to 8.8.8.8 gives "8.8.8.8\n12ms")
\* and "Failed" after a failed one; it shows the working label while the
\* probe runs and the original label when there is no result.
C23_PingRendering ==
    probe_kind = "ping" =>
       ping_text(ping_label) =
          CASE ping_label.kind = "working" -> Text("Pinging...", "", 0, 0)
            [] ping_label.kind = "result" ->
                  Text("8.8.8.8", "ms", ping_label.ping_time, 0)
            [] ping_label.kind = "failed" -> Text("8.8.8.8", "Failed", 0, 0)
            [] OTHER -> Text("orig_label", "", 0, 0)

\* no worker is in flight and no update_label is waiting to run
Quiet ==
    /\ LiveWorkers = {}
    /\ \A i \in 1..Len(ping_after) : ping_after[i].f.name # "update_label"

\* the clear_results callbacks pending
PendingClears ==
    { i \in 1..Len(ping_after) : ping_after[i].f.name = "clear_results" }

\* C22: once a worker has completed and its update_label has run, the
\* button shows that worker's result; the clear_results callback that the
\* completion scheduled is pending and the state holds its handle; the
\* result stays on show for the whole window, no other clear_results being
\* due before that callback; and once the result is taken away the button
\* is idle: no result, the original label, no clear handle held.
C22_ResultShownForWholeWindow ==
    /\ (Quiet /\ ping.results # NoResults) =>
          /\ ping_label.kind \in {"result", "failed"}
          /\ ping_label.by = ping.results[3]
          /\ \E i \in PendingClears :
                /\ ping_after[i].id = ping.clear_job
                /\ \A j \in PendingClears :
                      ping_after[j].delay >= ping_after[i].delay
    /\ (Quiet /\ ping.results = NoResults /\ ~ping.running) =>
          /\ ping_label.kind = "orig_label"
          /\ ping.clear_job = None

\* C31: at most one clear_results callback of a probe button is pending at
\* any time, and none is pending while the probe is Running.
C31_OneClearPendingNoneWhileRunning ==
    /\ Cardinality(PendingClears) <= 1
    /\ ping.running => PendingClears = {}

\* C32: a step of a probe worker thread changes neither the running flag
\* nor the clear handle of the state dict and neither schedules nor cancels
\* a callback, the posting of update_label apart: it writes the result slot
\* only.
C32_WorkerWritesOnlyResults ==
    [][(\E w \in Workers : run_ping(w)) =>
          /\ ping'.running = ping.running
          /\ ping'.clear_job = ping.clear_job
          /\ SelectSeq(ping_after', LAMBDA e : e.f.name # "update_label")
                = SelectSeq(ping_after, LAMBDA e : e.f.name # "update_label")]_vars

\* the worker threads that are past their try block
PastTry ==
    { w \in Workers : ping_thread[w] \notin {"unborn", "probe"} }

\* C20, at every moment: no exception has left a worker thread; the worker
\* that left its try block last has written a result; if its blocking
\* operation failed, what it wrote is the structured failed result, which
\* the button shows as failed once it is no longer running.
C20_FailureBecomesFailedResult ==
    /\ \A w \in Workers :
          ping_thread[w] # "raised" /\ w \notin ping_hist.escaping
    /\ PastTry # {} =>
          /\ ping_hist.tried \in PastTry
          /\ ping_hist.wrote # "nothing"
          /\ ping_hist.blocking = "failed" =>
                /\ ping_hist.wrote = "failed_result"
                /\ ping_render([ping EXCEPT !.running = FALSE,
                      !.results = FailedResult(probe_kind,
                                               ping_hist.tried)]).kind
                      = "failed"

\* C20: every activation of a probe leaves Running with a result written:
\* whatever the blocking operation does, the worker writes a result (the
\* structured failed one when the operation failed), clears the running
\* flag and ends, and no exception leaves the worker thread.
C20_ActivationLeavesRunning ==
    /\ []C20_FailureBecomesFailedResult
    /\ \A w \in Workers :
          (ping_thread[w] = "probe") ~> (ping_thread[w] = "exited")
    /\ \A w \in Workers :
          (ping_thread[w] = "probe") ~> (~ping.running /\ w \in PastTry)

\* C20, reached: the blocking operation of a speed test failed, the worker
\* ended, and the button shows the failed result
C20_RaisedProbeShownFailed ==
    /\ probe_kind = "network_speed"
    /\ ping_hist.tried # 0
    /\ ping_thread[ping_hist.tried] = "exited"
    /\ ping_hist.blocking = "failed"
    /\ ~ping.running
    /\ ping.results = FailedResult(probe_kind, ping_hist.tried)
    /\ ping_label.kind = "failed"

(***************************************************************************)
(* Pomodoro button: pomodoro_handler.create_pomodoro_button                *)
(***************************************************************************)
\* seconds per minute: cfg durations are minutes (cfg.get(...) * 60)
SecondsPerMinute == 60

work_duration == WorkMinutes * SecondsPerMinute
short_break_duration == ShortBreakMinutes * SecondsPerMinute
long_break_duration == LongBreakMinutes * SecondsPerMinute

\* cfg["sessions_before_long_break"]
sessions_before_long_break == 2

\* btn.after(1000, tick), btn.after(60000, clear_complete_message),
\* btn.after(3000, advance_phase), in seconds
TickDelay == 1
CompleteClearDelay == 60
AdvanceDelay == 3

Breaks == {"short_break", "long_break"}

\* text of the button: update_label of pomodoro_handler
pomodoro_render(state) ==
    CASE state.phase = "ready" ->
           [text |-> "orig_label", time |-> 0, note |-> "", n |-> 0]
      [] state.phase = "work" ->
           IF state.running /\ ~state.paused
           THEN [text |-> "Work", time |-> state.remaining,
                 note |-> "Session", n |-> state.current_session]
           ELSE [text |-> "Work", time |-> state.remaining,
                 note |-> "Paused", n |-> 0]
      [] state.phase = "short_break" ->
           [text |-> "Short Break", time |-> state.remaining,
            note |-> IF state.running /\ ~state.paused THEN "" ELSE "Paused",
            n |-> 0]
      [] state.phase = "long_break" ->
           [text |-> "Long Break", time |-> state.remaining,
            note |-> IF state.running /\ ~state.paused THEN "" ELSE "Paused",
            n |-> 0]
      [] state.phase = "complete" ->
           IF state.sessions_completed > 0
           THEN [text |-> "Work Complete!", time |-> 0, note |-> "sessions",
                 n |-> state.sessions_completed]
           ELSE [text |-> "Break Complete!", time |-> 0, note |-> "", n |-> 0]

\* The handlers below are functions of a machine m = [state, q, h]: the
\* state dict, the pending callbacks and the history of the run.

\* does the completion branch of tick schedule advance_phase
schedules_advance(aa) == aa

\* tick() with "if state['remaining'] >= 0" for "> 0"
tick_counts_past_zero(m, aa) ==
    IF ~m.state.running \/ m.state.paused THEN m
    ELSE IF m.state.remaining >= 0
    THEN LET h == NewHandle(m.q, {m.state.job, m.state.clear_job})
         IN  [m EXCEPT !.state.remaining = @ - 1,
                       !.state.job = h,
                       !.q = after(m.q, h, "tick", TickDelay)]
    ELSE LET q1 == IF m.state.clear_job # None
                   THEN after_cancel(m.q, m.state.clear_job) ELSE m.q
             h1 == NewHandle(q1, {m.state.job, m.state.clear_job})
             q2 == after(q1, h1, "clear_complete_message", CompleteClearDelay)
             h2 == NewHandle(q2, {m.state.job, h1})
             q3 == IF schedules_advance(aa)
                   THEN after(q2, h2, "advance_phase", AdvanceDelay) ELSE q2
         IN  [m EXCEPT !.state.running = FALSE,
                       !.state.phase = "complete",
                       !.state.clear_job = h1,
                       !.q = q3,
                       !.h.done_phase = m.state.phase,
                       !.h.undisturbed = TRUE,
                       !.h.work_done = IF m.state.phase = "work"
                                       THEN @ + 1 ELSE @,
                       !.h.completions = IF @ < 2 THEN @ + 1 ELSE @]

\* tick()
tick(m, aa) ==
    IF ~m.state.running \/ m.state.paused THEN m
    ELSE IF m.state.remaining > 0
    THEN LET h == NewHandle(m.q, {m.state.job, m.state.clear_job})
         IN  [m EXCEPT !.state.remaining = @ - 1,
                       !.state.job = h,
                       !.q = after(m.q, h, "tick", TickDelay)]
    ELSE LET q1 == IF m.state.clear_job # None
                   THEN after_cancel(m.q, m.state.clear_job) ELSE m.q
             h1 == NewHandle(q1, {m.state.job, m.state.clear_job})
             q2 == after(q1, h1, "clear_complete_message", CompleteClearDelay)
             h2 == NewHandle(q2, {m.state.job, h1})
             q3 == IF schedules_advance(aa)
                   THEN after(q2, h2, "advance_phase", AdvanceDelay) ELSE q2
         IN  [m EXCEPT !.state.running = FALSE,
                       !.state.phase = "complete",
                       !.state.clear_job = h1,
                       !.q = q3,
                       !.h.done_phase = m.state.phase,
                       !.h.undisturbed = TRUE,
                       !.h.work_done = IF m.state.phase = "work"
                                       THEN @ + 1 ELSE @,
                       !.h.completions = IF @ < 2 THEN @ + 1 ELSE @]

\* is the break after this many completed sessions a long one
is_long_break(sessions_completed) ==
    sessions_completed % sessions_before_long_break = 0

\* advance_phase()
advance_phase(m, aa) ==
    LET s  == m.state
        s1 == IF s.phase = "work"
              THEN IF is_long_break(s.sessions_completed + 1)
                   THEN [s EXCEPT !.sessions_completed = @ + 1,
                                  !.phase = "long_break",
                                  !.remaining = long_break_duration]
                   ELSE [s EXCEPT !.sessions_completed = @ + 1,
                                  !.phase = "short_break",
                                  !.remaining = short_break_duration]
              ELSE IF s.phase \in Breaks
              THEN [s EXCEPT !.phase = "work",
                             !.remaining = work_duration,
                             !.current_session = s.sessions_completed + 1]
              ELSE s
        s2 == [s1 EXCEPT !.running = TRUE, !.paused = FALSE]
    IN  tick([m EXCEPT !.state = s2,
                       !.h.work_done = IF s.phase = "work" THEN @ + 1 ELSE @,
                       !.h.completions = IF s.phase \in {"work"} \cup Breaks
                                         THEN 0 ELSE @],
             aa)

\* start_pomodoro()
start_pomodoro(m, aa) ==
    LET s  == m.state
        s1 == IF s.phase = "ready"
              THEN [s EXCEPT !.phase = "work", !.remaining = work_duration,
                             !.running = TRUE, !.paused = FALSE,
                             !.current_session = 1]
              ELSE IF s.paused THEN [s EXCEPT !.paused = FALSE]
              ELSE [s EXCEPT !.paused = TRUE]
        m1 == [m EXCEPT !.state = s1,
                        !.h.completions = IF s.phase = "ready" THEN 0 ELSE @]
    IN  IF s1.running /\ ~s1.paused THEN tick(m1, aa) ELSE m1

\* skip_phase()
skip_phase(m, aa) ==
    IF m.state.running
    THEN advance_phase(
           IF m.state.job # None
           THEN [m EXCEPT !.q = after_cancel(m.q, m.state.job),
                          !.state.job = None]
           ELSE m, aa)
    ELSE m

\* reset_pomodoro()
reset_pomodoro(m) ==
    LET q1 == IF m.state.job # None
              THEN after_cancel(m.q, m.state.job) ELSE m.q
        q2 == IF m.state.clear_job # None
              THEN after_cancel(q1, m.state.clear_job) ELSE q1
    IN  [m EXCEPT !.q = q2,
                  !.state = [running |-> FALSE, paused |-> FALSE,
                             job |-> None, clear_job |-> None,
                             phase |-> "ready",
                             remaining |-> work_duration,
                             sessions_completed |-> 0,
                             current_session |-> 1],
                  !.h.work_done = 0]

\* clear_complete_message() without "state['phase'] = 'ready'"
clear_keeps_phase(m) ==
    [m EXCEPT !.state.remaining = work_duration]

\* clear_complete_message()
clear_complete_message(m) ==
    [m EXCEPT !.state.phase = "ready", !.state.remaining = work_duration]

\* the state dict as create_pomodoro_button builds it
Idle == [running |-> FALSE, paused |-> FALSE, job |-> None,
         clear_job |-> None, phase |-> "ready",
         remaining |-> work_duration, sessions_completed |-> 0,
         current_session |-> 1]

Machine == [state |-> pomodoro, q |-> pomodoro_after, h |-> pomodoro_hist]

\* the effect of one handler on the button
Becomes(m, event) ==
    /\ pomodoro' = m.state
    /\ pomodoro_label' = IF event = "tick" /\ m.state = pomodoro
                         THEN pomodoro_label
                         ELSE pomodoro_render(m.state)
    /\ pomodoro_after' = m.q
    /\ pomodoro_hist' = [m.h EXCEPT !.event = event,
                                    !.advanced_from =
                                       IF event = "advance_phase"
                                       THEN @ ELSE "none",
                                    !.skipped_from =
                                       IF event = "right_click"
                                       THEN @ ELSE "none"]
    /\ UNCHANGED <<auto_advance, vars_not_pomodoro>>

Gesture(h) == [h EXCEPT !.gestures = @ + 1, !.undisturbed = FALSE,
                        !.since_reset = FALSE]

\* <Button-1>: on_pomodoro_click
on_pomodoro_click ==
    /\ pomodoro_hist.gestures < MaxGestures
    /\ pomodoro_armed' = TRUE
    /\ Becomes(start_pomodoro([Machine EXCEPT !.h = Gesture(@)],
                              auto_advance), "click")

\* <Button-3>: on_pomodoro_right_click
on_pomodoro_right_click ==
    /\ pomodoro_hist.gestures < MaxGestures
    /\ pomodoro_armed' = FALSE
    /\ Becomes(skip_phase([Machine EXCEPT
                              !.h = [Gesture(@) EXCEPT !.skipped_from =
                                        IF pomodoro.running
                                        THEN pomodoro.phase ELSE "none"]],
                          auto_advance),
               "right_click")

\* <Double-Button-1>: on_pomodoro_double_click; Tk delivers it for the
\* second press of a double click, the first press was a <Button-1>
on_pomodoro_double_click ==
    /\ pomodoro_armed
    /\ pomodoro_hist.gestures < MaxGestures
    /\ pomodoro_armed' = FALSE
    /\ Becomes([reset_pomodoro([Machine EXCEPT !.h = Gesture(@)])
                  EXCEPT !.h.since_reset = TRUE], "double_click")

\* the event loop runs a pending tick
pomodoro_tick ==
    /\ Due(pomodoro_after)
    /\ pomodoro_after[1].f = "tick"
    /\ UNCHANGED pomodoro_armed
    /\ Becomes(tick([Machine EXCEPT !.q = Tail(@)], auto_advance), "tick")

\* the event loop runs a pending clear_complete_message
pomodoro_clear ==
    /\ Due(pomodoro_after)
    /\ pomodoro_after[1].f = "clear_complete_message"
    /\ UNCHANGED pomodoro_armed
    /\ Becomes(clear_complete_message([Machine EXCEPT !.q = Tail(@)]),
               "clear_complete_message")

\* the event loop runs a pending advance_phase
pomodoro_advance ==
    /\ Due(pomodoro_after)
    /\ pomodoro_after[1].f = "advance_phase"
    /\ UNCHANGED pomodoro_armed
    /\ Becomes(advance_phase([Machine EXCEPT
                                !.q = Tail(@),
                                !.h.advanced_from =
                                   IF pomodoro_hist.undisturbed
                                   THEN pomodoro_hist.done_phase
                                   ELSE "none"],
                             auto_advance), "advance_phase")

\* a second goes by; nothing is due
pomodoro_second ==
    /\ ~Due(pomodoro_after)
    /\ Len(pomodoro_after) > 0 \/ pomodoro_armed
    /\ pomodoro_after' = Elapse(pomodoro_after)
    /\ pomodoro_armed' = FALSE
    /\ pomodoro_hist' = [pomodoro_hist EXCEPT !.event = "second",
                                              !.advanced_from = "none",
                                              !.skipped_from = "none"]
    /\ UNCHANGED <<pomodoro, pomodoro_label, auto_advance, vars_not_pomodoro>>

NextPomodoro ==
    \/ on_pomodoro_click
    \/ on_pomodoro_right_click
    \/ on_pomodoro_double_click
    \/ pomodoro_tick
    \/ pomodoro_clear
    \/ pomodoro_advance
    \/ pomodoro_second

(***************************************************************************)
(* Properties of the pomodoro button                                       *)
(***************************************************************************)
\* C2: with autoAdvance enabled, the advance_phase callback scheduled by a
\* natural completion (no gesture since) moves a completed Work phase to a
\* running break and a completed break to a running Work phase.
C2_AutoAdvanceEntersNextPhase ==
    (auto_advance /\ pomodoro_hist.event = "advance_phase") =>
       /\ pomodoro_hist.advanced_from = "work" =>
             (pomodoro.phase \in Breaks /\ pomodoro.running)
       /\ pomodoro_hist.advanced_from \in Breaks =>
             (pomodoro.phase = "work" /\ pomodoro.running)

\* C5: after a double-click reset, and until the next gesture, the button
\* stays Idle: no callback scheduled before the reset changes the state.
C5_ResetCancelsEveryCallback ==
    pomodoro_hist.since_reset => pomodoro = Idle

\* C7: the break entered after the N-th completed Work phase since the
\* last reset is the long break exactly when N is a multiple of
\* sessions_before_long_break.
C7_LongBreakEveryNth ==
    pomodoro.phase \in Breaks =>
       /\ pomodoro_hist.work_done >= 1
       /\ (pomodoro.phase = "long_break") <=>
             (pomodoro_hist.work_done % sessions_before_long_break = 0)

\* the tick callbacks pending
PendingTicks ==
    { i \in 1..Len(pomodoro_after) : pomodoro_after[i].f = "tick" }

\* the length of a phase, seconds
PhaseDuration(phase) ==
    CASE phase = "work" -> work_duration
      [] phase = "short_break" -> short_break_duration
      [] phase = "long_break" -> long_break_duration
      [] OTHER -> 0

\* C27: a secondary click on a pomodoro in Work or in a break, running or
\* paused, leaves it in the next phase of the cycle (a break after Work,
\* Work after a break), running and not paused, with the whole duration
\* of the new phase ahead: its first second counted and one tick, the only
\* one pending, due a second later.
C27_SkipEntersNextPhase ==
    pomodoro_hist.skipped_from \in {"work"} \cup Breaks =>
       /\ pomodoro_hist.skipped_from = "work" => pomodoro.phase \in Breaks
       /\ pomodoro_hist.skipped_from \in Breaks => pomodoro.phase = "work"
       /\ pomodoro.running
       /\ ~pomodoro.paused
       /\ pomodoro.remaining = PhaseDuration(pomodoro.phase) - 1
       /\ \E i \in PendingTicks :
             /\ PendingTicks = {i}
             /\ pomodoro_after[i].id = pomodoro.job
             /\ pomodoro_after[i].delay = TickDelay

\* C30: at most one tick callback of the pomodoro button, and at most one
\* of the timer button, is pending at any time.
C30_AtMostOneTickPending ==
    /\ Cardinality(PendingTicks) <= 1
    /\ Len(timer_after) <= 1

\* C36: since the last start of a phase (a click on the ready button, or
\* a skip or an automatic advance into Work or a break) the completion
\* branch of tick, and with it the notification, has run once at most.
C36_OneNotificationPerPhase ==
    pomodoro_hist.completions <= 1

\* C37: running or paused is true only while the phase is Work, ShortBreak
\* or LongBreak; in ready and complete both flags are false and no tick is
\* pending.
C37_FlagsOnlyInCountingPhases ==
    pomodoro.phase \in {"ready", "complete"} =>
        /\ ~pomodoro.running
        /\ ~pomodoro.paused
        /\ PendingTicks = {}

\* C38: while the phase is Work, current_session is sessions_completed + 1;
\* sessions_completed changes only by one more on a step from Work into a
\* break, and by a reset to 0.
C38_SessionCounters ==
    /\ [](pomodoro.phase = "work" =>
            pomodoro.current_session = pomodoro.sessions_completed + 1)
    /\ [][pomodoro'.sessions_completed # pomodoro.sessions_completed =>
            \/ /\ pomodoro'.sessions_completed
                    = pomodoro.sessions_completed + 1
               /\ pomodoro.phase = "work"
               /\ pomodoro'.phase \in Breaks
            \/ /\ pomodoro'.sessions_completed = 0
               /\ pomodoro_hist'.event = "double_click"]_vars

\* the clear_complete_message callback of the last completion is pending
ClearPending ==
    \E i \in 1..Len(pomodoro_after) :
       /\ pomodoro_after[i].id = pomodoro.clear_job
       /\ pomodoro_after[i].f = "clear_complete_message"

\* C26, as stated: with auto_advance disabled, a phase that ran out leaves
\* the button in Complete until the next gesture.
C26_StaysCompleteUntilGesture ==
    (~auto_advance /\ pomodoro_hist.undisturbed) =>
       pomodoro.phase = "complete"

\* C26, as the code has it: with auto_advance disabled, a phase that ran
\* out leaves the button stopped until the next gesture; it shows Complete
\* for as long as the clear_complete_message callback scheduled at the
\* completion is pending, 60 seconds, and is back at ready with the work
\* duration and the original label once that callback has run.  No
\* callback starts a phase.
C26_CompleteForSixtySeconds ==
    (~auto_advance /\ pomodoro_hist.undisturbed) =>
       /\ ~pomodoro.running
       /\ pomodoro.phase \in {"complete", "ready"}
       /\ pomodoro.phase = "complete" <=> ClearPending
       /\ pomodoro.phase = "complete" =>
             pomodoro_label.text \in {"Work Complete!", "Break Complete!"}
       /\ pomodoro.phase = "ready" =>
             /\ pomodoro.remaining = work_duration
             /\ pomodoro_label.text = "orig_label"

\* C26, the case: a phase ran out without auto_advance and, no gesture
\* made, the 60 seconds went by
C26_CompleteMessageCleared ==
    /\ ~auto_advance
    /\ pomodoro_hist.undisturbed
    /\ pomodoro_hist.event = "clear_complete_message"
    /\ pomodoro.phase = "ready"

(***************************************************************************)
(* Timer button: timer_manager.create_timer_button                         *)
(***************************************************************************)
\* The handlers are functions of a machine m = [state, q, h, D]: the state
\* dict, the pending callbacks, the history and total_seconds.

\* text of the button: update_label of timer_manager
timer_render(state) ==
    IF state.running
    THEN [text |-> "h:mm:ss", time |-> state.remaining]
    ELSE [text |-> "orig_label", time |-> 0]

\* tick()
timer_tick(m) ==
    IF ~m.state.running \/ m.state.paused THEN m
    ELSE IF m.state.remaining > 0
    THEN LET h == NewHandle(m.q, {m.state.job})
         IN  [m EXCEPT !.state.remaining = @ - 1,
                       !.state.job = h,
                       !.q = after(m.q, h, "tick", TickDelay),
                       !.h.decrements = @ + 1]
    ELSE [m EXCEPT !.state.running = FALSE,
                   !.h.finished = @ + 1,
                   !.h.bells = @ + 1]

\* start_timer() without "state['remaining'] = total_seconds"
start_timer_keeps_remaining(m) ==
    IF m.state.running THEN m
    ELSE timer_tick([m EXCEPT !.state.running = TRUE,
                              !.state.paused = FALSE,
                              !.h = [elapsed |-> 0, clean |-> TRUE,
                                     finished |-> 0, bells |-> 0,
                                     decrements |-> 0,
                                     reset_from |-> "none",
                                     unpaused |-> 0]])

\* start_timer()
start_timer(m) ==
    IF m.state.running THEN m
    ELSE timer_tick([m EXCEPT !.state.running = TRUE,
                              !.state.paused = FALSE,
                              !.state.remaining = m.D,
                              !.h = [elapsed |-> 0, clean |-> TRUE,
                                     finished |-> 0, bells |-> 0,
                                     decrements |-> 0,
                                     reset_from |-> "none",
                                     unpaused |-> 0]])

\* pause_resume_timer()
pause_resume_timer(m) ==
    IF ~m.state.running THEN start_timer(m)
    ELSE IF ~m.state.paused
    THEN [m EXCEPT !.state.paused = TRUE,
                   !.state.job = None,
                   !.q = IF m.state.job # None
                         THEN after_cancel(m.q, m.state.job) ELSE m.q,
                   !.h.clean = FALSE]
    ELSE timer_tick([m EXCEPT !.state.paused = FALSE, !.h.clean = FALSE])

\* where the timer is: Idle, Running, Paused or Complete
TimerPhase(state, D) ==
    IF state.running THEN IF state.paused THEN "paused" ELSE "running"
    ELSE IF state.remaining = D THEN "idle" ELSE "finished"

\* stop_timer() without "btn.after_cancel(state['job'])"
stop_timer_keeps_job(m) ==
    [m EXCEPT !.state.running = FALSE,
              !.state.paused = FALSE,
              !.state.job = None,
              !.state.remaining = m.D,
              !.h.clean = FALSE,
              !.h.reset_from = TimerPhase(m.state, m.D)]

\* stop_timer()
stop_timer(m) ==
    [m EXCEPT !.state.running = FALSE,
              !.state.paused = FALSE,
              !.state.job = None,
              !.state.remaining = m.D,
              !.q = IF m.state.job # None
                    THEN after_cancel(m.q, m.state.job) ELSE m.q,
              !.h.clean = FALSE,
              !.h.reset_from = TimerPhase(m.state, m.D)]

TimerIdle(D) == [running |-> FALSE, paused |-> FALSE, remaining |-> D,
                 job |-> None, start_time |-> None]

TimerMachine == [state |-> timer, q |-> timer_after, h |-> timer_hist,
                 D |-> total_seconds]

\* the effect of one handler on the button; tick and pause_resume_timer
\* redraw the label only on the paths that call update_label
TimerBecomes(m, redraw) ==
    /\ timer' = m.state
    /\ timer_label' = IF redraw THEN timer_render(m.state) ELSE timer_label
    /\ timer_after' = m.q
    /\ timer_hist' = m.h
    /\ UNCHANGED <<total_seconds, vars_not_timer>>

\* <Button-1>: on_timer_click
on_timer_click ==
    /\ timer_armed' = TRUE
    /\ TimerBecomes(pause_resume_timer(TimerMachine), TRUE)

\* <Double-Button-1>: stop_timer, the second press of a double click
on_timer_double_click ==
    /\ timer_armed
    /\ timer_armed' = FALSE
    /\ TimerBecomes(stop_timer(TimerMachine), TRUE)

\* the event loop runs the pending tick
timer_tick_fires ==
    /\ Due(timer_after)
    /\ UNCHANGED timer_armed
    /\ TimerBecomes(timer_tick([TimerMachine EXCEPT !.q = Tail(@)]),
                    timer.running /\ ~timer.paused)

\* a second goes by; nothing is due
timer_second ==
    /\ ~Due(timer_after)
    /\ Len(timer_after) > 0 \/ timer_armed
    /\ timer_after' = Elapse(timer_after)
    /\ timer_armed' = FALSE
    /\ timer_hist' = [timer_hist EXCEPT
                        !.elapsed = IF timer.running /\ timer_hist.clean
                                    THEN @ + 1 ELSE @,
                        !.unpaused = IF timer.running /\ ~timer.paused
                                     THEN @ + 1 ELSE @]
    /\ UNCHANGED <<timer, timer_label, total_seconds, vars_not_timer>>

NextTimer ==
    \/ on_timer_click
    \/ on_timer_double_click
    \/ timer_tick_fires
    \/ timer_second

\* the timer button has not been used
TimerUnused ==
    /\ timer = TimerIdle(total_seconds)
    /\ timer_after = << >>
    /\ ~timer_armed
    /\ ~timer_hist.clean
    /\ timer_hist.decrements = 0
    /\ timer_hist.finished = 0
    /\ timer_hist.reset_from = "none"

\* one countdown button on the grid, a timer or a pomodoro: the user works
\* with the one that is there
NextCountdown ==
    \/ pomodoro_hist.event = "init" /\ NextTimer
    \/ TimerUnused /\ NextPomodoro

(***************************************************************************)
(* Properties of the timer button                                          *)
(***************************************************************************)
\* the configured length of the phase the label counts down, seconds
ConfiguredDuration(phase) ==
    IF phase \in {"ready", "complete"} THEN work_duration
    ELSE PhaseDuration(phase)

\* C39: the remaining seconds of a timer and of a pomodoro are never below
\* 0 and never above the configured duration of the current phase (of the
\* work phase while the pomodoro is ready or complete).
C39_RemainingWithinPhase ==
    /\ timer.remaining \in 0..total_seconds
    /\ pomodoro.remaining \in 0..ConfiguredDuration(pomodoro.phase)

\* a pomodoro phase has counted down to 0 and its last tick has completed it
C39_CountedDownToZero ==
    /\ pomodoro.phase = "complete"
    /\ pomodoro.remaining = 0
    /\ pomodoro_hist.event = "tick"
    /\ pomodoro_hist.completions = 1

\* C8: a timer started with duration D and left alone finishes when D
\* seconds have elapsed, after D one-second decrements, exactly once, with
\* exactly one completion sound.
C8_TimerFinishesOnceAfterD ==
    timer_hist.clean =>
       /\ timer_hist.finished <= 1
       /\ timer_hist.bells = timer_hist.finished
       /\ timer_hist.decrements <= total_seconds
       /\ timer_hist.finished = 1 =>
             /\ timer_hist.elapsed = total_seconds
             /\ timer_hist.decrements = total_seconds
             /\ ~timer.running
             /\ timer_after = << >>

\* C8, the case: a timer of the longest duration ran undisturbed to its end
C8_TimerRanOut ==
    /\ timer_hist.clean
    /\ timer_hist.finished = 1
    /\ total_seconds = MaxDuration
    /\ timer_hist.elapsed = MaxDuration

\* C35: whatever the pause and resume clicks, a timer of duration D that
\* has finished ran unpaused for D seconds at least, and at no time has it
\* counted more seconds than have elapsed while it ran unpaused, the
\* second counted at the start apart.
C35_PauseNeverShortens ==
    /\ timer_hist.finished > 0 => timer_hist.unpaused >= total_seconds
    /\ timer_hist.decrements <= timer_hist.unpaused + 1

\* C25: once a double-click has run stop_timer, from whatever state, the
\* timer is Idle: not running, not paused, remaining back at the configured
\* duration, the original label shown and no tick callback pending.
C25_ResetReturnsToIdle ==
    timer_hist.reset_from # "none" =>
       /\ timer = TimerIdle(total_seconds)
       /\ timer_label = timer_render(TimerIdle(total_seconds))
       /\ timer_after = << >>

\* C25, the case: a paused timer of the longest duration was reset
C25_PausedTimerReset ==
    /\ timer_hist.reset_from = "paused"
    /\ total_seconds = MaxDuration
    /\ timer_hist.decrements > 1

\* C25, the other states reset from
C25_RunningTimerReset == timer_hist.reset_from = "running"
C25_FinishedTimerReset == timer_hist.reset_from = "finished"
C25_IdleTimerReset == timer_hist.reset_from = "idle"

(***************************************************************************)
(* Process session: ui/dialogs/output_overlay.OutputOverlay                *)
(***************************************************************************)
\* what the external process may print
Lines == {"data", "name:"}

\* what the user types into the input entry
Inputs == {"ann", ""}

\* exit codes the external process may end with
ExitCodes == {-15, -9, -1, 0, 1, 2, 3, 5, 15}

\* "common termination signals" of read_output
TerminationCodes == {-1, 1, 2, 3, 15}

\* exit code of a process that had to be killed
KilledCode == -9

\* self.after(2000, self.close) and proc.wait(timeout=2), seconds
AutoCloseDelay == 2
GracePeriod == 2

\* outcomes of the checks and of Popen in run_script
LaunchOutcomes == {"script_missing", "no_python", "python_missing",
                   "popen_raises", "started"}

\* read_output without the test of the termination codes: every non-zero
\* exit of a window the user did not close is an error
nonzero_is_error(exit_code, user_closed) ==
    exit_code # 0 /\ ~user_closed

\* read_output: is this exit an error (error_occurred = True)
is_error_exit(exit_code, user_closed) ==
    /\ exit_code # 0
    /\ ~user_closed
    /\ exit_code \notin TerminationCodes

\* run_script with the "return" of its error branches left out: the
\* reader thread is started whatever the launch did
starts_reader_always(outcome) == TRUE

\* run_script: the error branches return, so threading.Thread(
\* target=self.read_output).start() is reached only after Popen succeeded
starts_reader(outcome) == outcome = "started"

\* OutputOverlay.__init__ -> run_script
overlay_run_script ==
    /\ overlay_ui = "init"
    /\ \E outcome \in LaunchOutcomes :
         /\ overlay_hist' = [overlay_hist EXCEPT
                               !.launch = outcome,
                               !.readers = IF starts_reader(outcome)
                                           THEN 1 ELSE 0]
         /\ reader' = IF starts_reader(outcome)
                      THEN [reader EXCEPT !.pc = "reading"] ELSE reader
         /\ IF outcome = "started"
            THEN /\ overlay' = [overlay EXCEPT !.proc = "Popen",
                                               !.waiting_for_input = FALSE]
                 /\ overlay_text' = << "Running..." >>
                 /\ process' = [process EXCEPT !.state = "running"]
            ELSE /\ overlay' = [overlay EXCEPT !.error_occurred = TRUE,
                                               !.title_error = TRUE,
                                               !.input_disabled = TRUE]
                 /\ overlay_text' = << "Running...", "Error:" >>
                 /\ UNCHANGED process
    /\ overlay_ui' = "idle"
    /\ UNCHANGED <<overlay_after, vars_not_overlay>>

\* the external process prints a line
process_prints ==
    /\ process.state = "running"
    /\ process.printed < MaxLines
    /\ \E line \in Lines :
         process' = [process EXCEPT !.pipe = Append(@, line),
                                    !.printed = @ + 1]
    /\ UNCHANGED <<overlay, overlay_text, overlay_after, overlay_ui, reader,
                   overlay_hist, vars_not_overlay>>

\* the external process ends, by itself or after terminate()
process_exits ==
    /\ process.state = "running"
    /\ \E code \in ExitCodes \ {KilledCode} :
         process' = [process EXCEPT !.state = "exited", !.exit_code = code]
    /\ UNCHANGED <<overlay, overlay_text, overlay_after, overlay_ui, reader,
                   overlay_hist, vars_not_overlay>>

\* read_output: readline returns a line, self.after(0, self._append_output)
read_output_line ==
    /\ reader.pc = "reading"
    /\ Len(process.pipe) > 0
    /\ reader' = [reader EXCEPT !.output_received = TRUE]
    /\ process' = [process EXCEPT !.pipe = Tail(@)]
    /\ overlay_after' = after(overlay_after, NewHandle(overlay_after, {}),
                              [name |-> "_append_output",
                               line |-> Head(process.pipe)], 0)
    /\ overlay_hist' = [overlay_hist EXCEPT
                          !.read = Append(@, Head(process.pipe))]
    /\ UNCHANGED <<overlay, overlay_text, overlay_ui, vars_not_overlay>>

\* read_output: readline returns '' at end of file, the loop ends
read_output_eof ==
    /\ reader.pc = "reading"
    /\ Len(process.pipe) = 0
    /\ process.state = "exited"
    /\ reader' = [reader EXCEPT !.pc = "waiting"]
    /\ UNCHANGED <<overlay, overlay_text, overlay_after, overlay_ui, process,
                   overlay_hist, vars_not_overlay>>

\* read_output: exit_code = self.proc.wait() and the classification of it
read_output_wait ==
    /\ reader.pc = "waiting"
    /\ process.state = "exited"
    /\ LET err == is_error_exit(process.exit_code, overlay.user_closed)
       IN  /\ reader' = [reader EXCEPT !.pc = "finalizing",
                                       !.exit_code = process.exit_code,
                                       !.error_occurred = err]
           /\ overlay_after' =
                 IF err
                 THEN after(overlay_after, NewHandle(overlay_after, {}),
                            [name |-> "_append_output",
                             line |-> "Script failed with exit code:"], 0)
                 ELSE overlay_after
    /\ overlay_hist' = [overlay_hist EXCEPT
                          !.closed_at_classify = overlay.user_closed]
    /\ UNCHANGED <<overlay, overlay_text, overlay_ui, process,
                   vars_not_overlay>>

\* read_output: self.after(0, self._finalize_output, ...), the thread ends
read_output_finalize ==
    /\ reader.pc = "finalizing"
    /\ reader' = [reader EXCEPT !.pc = "exited"]
    /\ overlay_after' = after(overlay_after, NewHandle(overlay_after, {}),
                              [name |-> "_finalize_output",
                               output_received |-> reader.output_received,
                               error_occurred |-> reader.error_occurred], 0)
    /\ UNCHANGED <<overlay, overlay_text, overlay_ui, process, overlay_hist,
                   vars_not_overlay>>

\* read_output: something in the try block raises (readline, wait or a
\* self.after call from the thread); the except block posts the message
\* and then, from the reader thread, marks the window
read_output_raises ==
    /\ reader.pc \in {"reading", "waiting"}
    /\ reader' = [reader EXCEPT !.pc = "except"]
    /\ overlay_after' = after(overlay_after, NewHandle(overlay_after, {}),
                              [name |-> "_append_output",
                               line |-> "Error: Error reading script output"],
                              0)
    /\ UNCHANGED <<overlay, overlay_text, overlay_ui, process, overlay_hist,
                   vars_not_overlay>>

\* read_output, except block: input disabled, _error_occurred, title
read_output_except ==
    /\ reader.pc = "except"
    /\ reader' = [reader EXCEPT !.pc = "exited"]
    /\ overlay' = [overlay EXCEPT !.input_disabled = TRUE,
                                  !.error_occurred = TRUE,
                                  !.title_error = TRUE]
    /\ UNCHANGED <<overlay_text, overlay_after, overlay_ui, process,
                   overlay_hist, vars_not_overlay>>

\* _append_output inserting at the top of the text widget instead of
\* tk.END
append_output_at_top ==
    /\ overlay_ui = "idle"
    /\ Due(overlay_after)
    /\ overlay_after[1].f.name = "_append_output"
    /\ overlay_after' = Tail(overlay_after)
    /\ overlay_text' = << overlay_after[1].f.line >> \o overlay_text
    /\ UNCHANGED <<overlay, overlay_ui, reader, process, overlay_hist,
                   vars_not_overlay>>

\* the event loop runs a posted _append_output
append_output ==
    /\ overlay_ui = "idle"
    /\ Due(overlay_after)
    /\ overlay_after[1].f.name = "_append_output"
    /\ overlay_after' = Tail(overlay_after)
    /\ overlay_text' = Append(overlay_text, overlay_after[1].f.line)
    /\ overlay_hist' = [overlay_hist EXCEPT !.answered = FALSE]
    /\ UNCHANGED <<overlay, overlay_ui, reader, process, vars_not_overlay>>

\* send_input that also starts a read_output thread
send_input_starts_reader ==
    /\ overlay_ui = "idle"
    /\ ~overlay.withdrawn
    /\ Len(process.stdin) < MaxInputs
    /\ IF overlay.proc # "None" /\ process.state = "running"
       THEN /\ \E value \in Inputs :
                 process' = [process EXCEPT
                               !.stdin = Append(@, <<value, "\n">>)]
            /\ overlay_hist' = [overlay_hist EXCEPT !.answered = TRUE,
                                                    !.readers = @ + 1]
       ELSE UNCHANGED <<process, overlay_hist>>
    /\ UNCHANGED <<overlay, overlay_text, overlay_after, overlay_ui, reader,
                   vars_not_overlay>>

\* <Return> in the input entry: send_input; the text of the entry and a
\* newline are written to the stdin of a process that is still running
send_input ==
    /\ overlay_ui = "idle"
    /\ ~overlay.withdrawn
    /\ Len(process.stdin) < MaxInputs
    /\ IF overlay.proc # "None" /\ process.state = "running"
       THEN /\ \E value \in Inputs :
                 process' = [process EXCEPT
                               !.stdin = Append(@, <<value, "\n">>)]
            /\ overlay_hist' = [overlay_hist EXCEPT !.answered = TRUE]
       ELSE UNCHANGED <<process, overlay_hist>>
    /\ UNCHANGED <<overlay, overlay_text, overlay_after, overlay_ui, reader,
                   vars_not_overlay>>

\* _finalize_output scheduling the close outside the else branch
schedules_close_always(err) == TRUE

\* _finalize_output without "self.after(2000, self.close)"
schedules_close_never(err) == FALSE

\* _finalize_output: the else branch of "if error_occurred or
\* self._error_occurred" schedules the automatic close
schedules_close(err) == ~err

\* the event loop runs the posted _finalize_output
finalize_output ==
    /\ overlay_ui = "idle"
    /\ Due(overlay_after)
    /\ overlay_after[1].f.name = "_finalize_output"
    /\ LET f   == overlay_after[1].f
           err == f.error_occurred \/ overlay.error_occurred
           q   == Tail(overlay_after)
       IN  /\ overlay' = [overlay EXCEPT !.input_disabled = TRUE,
                                         !.title_error = err]
           /\ overlay_text' = IF ~f.output_received
                              THEN Append(overlay_text, "(No output generated)")
                              ELSE overlay_text
           /\ overlay_after' = IF schedules_close(err)
                               THEN after(q, NewHandle(q, {}),
                                          [name |-> "close"], AutoCloseDelay)
                               ELSE q
           /\ overlay_hist' = [overlay_hist EXCEPT
                                 !.finalized = TRUE,
                                 !.auto_close = schedules_close(err)]
    /\ UNCHANGED <<overlay_ui, reader, process, vars_not_overlay>>

\* close(), first part: _user_closed = True; a process that is still
\* running is asked to terminate and the UI thread waits for it; if
\* terminate() raises, the except and finally blocks withdraw the window
close_begins ==
    \E raises \in BOOLEAN :
       LET asked == process.state = "running" /\ overlay.proc # "None"
       IN  /\ overlay' = [overlay EXCEPT
                            !.user_closed = TRUE,
                            !.withdrawn = IF asked /\ ~raises
                                          THEN @ ELSE TRUE]
           /\ overlay_ui' = IF asked /\ ~raises THEN "closing" ELSE "idle"
           /\ process' = IF asked
                         THEN [process EXCEPT
                                 !.signalled = IF raises THEN "failed"
                                               ELSE "terminate"]
                         ELSE process
           /\ UNCHANGED <<overlay_text, reader, vars_not_overlay>>

\* WM_DELETE_WINDOW: the user closes the window
user_closes ==
    /\ overlay_ui = "idle"
    /\ ~overlay.withdrawn
    /\ UNCHANGED overlay_after
    /\ overlay_hist' = [overlay_hist EXCEPT
                          !.closed_by = IF @ = "none" THEN "user" ELSE @]
    /\ close_begins

\* the event loop runs the scheduled self.close
auto_close ==
    /\ overlay_ui = "idle"
    /\ Due(overlay_after)
    /\ overlay_after[1].f.name = "close"
    /\ overlay_after' = Tail(overlay_after)
    /\ overlay_hist' = [overlay_hist EXCEPT
                          !.closed_by = IF @ = "none" THEN "auto" ELSE @]
    /\ close_begins

\* close(): proc.wait(timeout=2) returns, the process has ended
close_waited ==
    /\ overlay_ui = "closing"
    /\ process.state = "exited"
    /\ overlay' = [overlay EXCEPT !.withdrawn = TRUE]
    /\ overlay_ui' = "idle"
    /\ UNCHANGED <<overlay_text, overlay_after, reader, process,
                   overlay_hist, vars_not_overlay>>

\* close() with "except subprocess.TimeoutExpired: pass": the process
\* that did not end within the grace period is left running
close_gives_up ==
    /\ overlay_ui = "closing"
    /\ process.state = "running"
    /\ overlay' = [overlay EXCEPT !.withdrawn = TRUE]
    /\ overlay_ui' = "idle"
    /\ overlay_after' = [ i \in 1..Len(overlay_after) |->
                            [ overlay_after[i] EXCEPT !.delay =
                                IF @ > GracePeriod THEN @ - GracePeriod
                                ELSE 0 ] ]
    /\ overlay_hist' = [overlay_hist EXCEPT
                          !.since_final = IF overlay_hist.finalized
                                          THEN AutoCloseDelay ELSE @]
    /\ UNCHANGED <<overlay_text, reader, process, vars_not_overlay>>

\* close(): TimeoutExpired after the grace period, proc.kill()
close_kills ==
    /\ overlay_ui = "closing"
    /\ process.state = "running"
    /\ process' = [process EXCEPT !.state = "exited",
                                  !.exit_code = KilledCode,
                                  !.signalled = "kill"]
    /\ overlay' = [overlay EXCEPT !.withdrawn = TRUE]
    /\ overlay_ui' = "idle"
    /\ overlay_after' = [ i \in 1..Len(overlay_after) |->
                            [ overlay_after[i] EXCEPT !.delay =
                                IF @ > GracePeriod THEN @ - GracePeriod
                                ELSE 0 ] ]
    /\ overlay_hist' = [overlay_hist EXCEPT
                          !.since_final = IF overlay_hist.finalized
                                          THEN AutoCloseDelay ELSE @]
    /\ UNCHANGED <<overlay_text, reader, vars_not_overlay>>

\* a second goes by; nothing is due
overlay_second ==
    /\ overlay_ui = "idle"
    /\ ~Due(overlay_after)
    /\ Len(overlay_after) > 0
    /\ overlay_after' = Elapse(overlay_after)
    /\ overlay_hist' = [overlay_hist EXCEPT
                          !.since_final =
                             IF overlay_hist.finalized /\ @ < AutoCloseDelay
                             THEN @ + 1 ELSE @]
    /\ UNCHANGED <<overlay, overlay_text, overlay_ui, reader, process,
                   vars_not_overlay>>

NextOverlay ==
    \/ overlay_run_script
    \/ process_prints
    \/ process_exits
    \/ read_output_line
    \/ read_output_eof
    \/ read_output_wait
    \/ read_output_finalize
    \/ read_output_raises
    \/ read_output_except
    \/ append_output
    \/ finalize_output
    \/ send_input
    \/ user_closes
    \/ auto_close
    \/ close_waited
    \/ close_kills
    \/ overlay_second

(***************************************************************************)
(* Properties of the process session                                       *)
(***************************************************************************)
\* C3 as stated: a session whose process exits with a non-zero code while
\* userClosed is not set ends with the window title marked ERROR.
C3_NonZeroExitMarksError ==
    (/\ overlay_hist.finalized
     /\ reader.exit_code # 0
     /\ ~overlay_hist.closed_at_classify) => overlay.title_error

\* C3 as the code has it: a finalized session has its title marked ERROR
\* exactly when the exit code is non-zero, is none of -1, 1, 2, 3, 15 and
\* userClosed was not set when the reader looked at the exit code; exit
\* code 0 and every other case schedule the automatic close instead.
C3_ExitCodeClassification ==
    overlay_hist.finalized =>
       /\ overlay.title_error <=>
             (/\ reader.exit_code # 0
              /\ reader.exit_code \notin TerminationCodes
              /\ ~overlay_hist.closed_at_classify)
       /\ overlay_hist.auto_close <=> ~overlay.title_error

\* C3, the case: a process nobody closed exited with code 5 and the
\* finalized session is marked ERROR
C3_FailedExitFinalized ==
    /\ overlay_hist.finalized
    /\ reader.exit_code = 5
    /\ ~overlay_hist.closed_at_classify
    /\ overlay.title_error

\* C4: once userClosed is set, the window title is never marked ERROR.
C4_NoErrorTitleAfterUserClose ==
    [][ (overlay.user_closed /\ ~overlay.title_error)
           => ~overlay'.title_error ]_vars

\* the lines of the process in the text widget, in the order shown
OutputShown == SelectSeq(overlay_text, LAMBDA l : l \in Lines)

\* C14: the output lines in the text widget are, in order, the lines the
\* reader thread has read so far, each once and none missing but those
\* still waiting in the scheduler; once _finalize_output has run, every
\* line read is in the widget.
C14_LinesAppendedInReadOrder ==
    /\ Len(OutputShown) <= Len(overlay_hist.read)
    /\ OutputShown = SubSeq(overlay_hist.read, 1, Len(OutputShown))
    /\ overlay_hist.finalized => OutputShown = overlay_hist.read

\* C14, the case: two different lines were read and the session is
\* finalized with both shown
C14_TwoLinesFinalized ==
    /\ overlay_hist.finalized
    /\ Len(overlay_hist.read) = MaxLines
    /\ overlay_hist.read[1] # overlay_hist.read[2]
    /\ OutputShown = overlay_hist.read

\* C15, safety: the automatic close happens only after finalization, the
\* fixed delay after it, with every line the reader read in the widget
C15_AutoCloseAfterAllLines ==
    overlay_hist.closed_by = "auto" =>
       /\ overlay_hist.finalized
       /\ overlay_hist.since_final = AutoCloseDelay
       /\ OutputShown = overlay_hist.read

PlaceholderShown ==
    \E i \in 1..Len(overlay_text) : overlay_text[i] = "(No output generated)"

\* the automatic close is waiting in the scheduler
ClosePending ==
    \E i \in 1..Len(overlay_after) : overlay_after[i].f.name = "close"

\* C16: at finalization, a session without error and without output shows
\* the placeholder, a session without error and with output has the
\* automatic close scheduled, and a session that ended Errored has no
\* automatic close scheduled, then or later.
C16_PlaceholderAndAutoClose ==
    overlay_hist.finalized =>
       /\ (~overlay.title_error /\ overlay_hist.read = << >>)
             => PlaceholderShown
       /\ (~overlay.title_error /\ overlay_hist.read # << >>)
             => overlay_hist.auto_close
       /\ overlay.title_error
             => (~overlay_hist.auto_close /\ ~ClosePending
                  /\ overlay_hist.closed_by # "auto")

\* C16, the case: a process that printed nothing and exited 0 is finalized
\* with the placeholder shown
C16_SilentSuccessFinalized ==
    /\ overlay_hist.finalized
    /\ overlay_hist.read = << >>
    /\ reader.exit_code = 0
    /\ ~overlay.title_error
    /\ PlaceholderShown

\* C17: while the process runs and the last line appended ends with ':'
\* or '?' (and no input was accepted since), the session is awaiting
\* input; accepted input is written to stdin followed by a newline and
\* the session is no longer awaiting input.
C17_PromptAwaitsInput ==
    /\ (/\ process.state = "running"
        /\ overlay_text # << >>
        /\ overlay_text[Len(overlay_text)] = "name:"
        /\ ~overlay_hist.answered) => overlay.waiting_for_input
    /\ overlay_hist.answered =>
          /\ ~overlay.waiting_for_input
          /\ process.stdin # << >>
          /\ process.stdin[Len(process.stdin)][2] = "\n"

\* C18: close() sets userClosed before anything else; while it waits the
\* process has been asked to terminate; when it returns the window is
\* withdrawn on every path, and the process has ended (by itself, on the
\* request, or killed after the grace period) unless asking it to
\* terminate raised.
C18_CloseTerminatesAndWithdraws ==
    /\ overlay.withdrawn => overlay.user_closed
    /\ overlay_ui = "closing" =>
          /\ overlay.user_closed
          /\ process.signalled = "terminate"
    /\ (overlay.user_closed /\ overlay_ui = "idle") =>
          /\ overlay.withdrawn
          /\ process.state = "running" => process.signalled = "failed"
    /\ process.signalled = "kill" =>
          /\ process.state = "exited"
          /\ process.exit_code = KilledCode
          /\ overlay.withdrawn

\* C18, the case: the process ignored the request and was killed after
\* the grace period
C18_KilledAfterGracePeriod ==
    /\ process.signalled = "kill"
    /\ process.state = "exited"
    /\ overlay.withdrawn
    /\ overlay_ui = "idle"

\* C13: a launch that fails (script missing, no or missing interpreter,
\* Popen raises) leaves the session Errored at once, title marked ERROR and
\* input disabled, with no process and no reader thread, then and ever
\* after.
C13_LaunchFailureStartsNoReader ==
    overlay_hist.launch \notin {"none", "started"} =>
       /\ overlay.error_occurred
       /\ overlay.title_error
       /\ overlay.input_disabled
       /\ overlay_hist.readers = 0
       /\ reader.pc = "unborn"
       /\ process.state = "none"

\* C13, the case: Popen raised and the user has closed the Errored window
C13_SpawnFailedAndClosed ==
    /\ overlay_hist.launch = "popen_raises"
    /\ overlay.title_error
    /\ overlay.withdrawn
    /\ reader.pc = "unborn"

(***************************************************************************)
(* Action dispatcher: button_handler_factory.ButtonHandlerFactory and      *)
(* button_manager.ButtonManager                                            *)
(***************************************************************************)
\* get_supported_types()
SupportedTypes == {"python_script", "website", "music", "post", "shell",
                   "llm", "app_launcher", "network_speed", "ping",
                   "pomodoro", "http_test", "color_picker"}

\* the handler modules that import a third-party package at module level
\* (http_test_handler: requests, urllib3)
ThirdPartyTypes == {"http_test"}

\* a cfg without a "type" key
NoType == "(no type)"

\* the cfg["type"] values explored
CfgTypes == {"python_script", "website", "http_test", "invalid_type",
             NoType}

\* no handler (None)
NoHandler == "None"

\* delay of the run_script after the press animation, in units of 100 ms
AnimationDelay == 1

\* _get_handler_class(handler_type): the class, or None with a log line
_get_handler_class(handler_type, fails) ==
    IF handler_type \notin SupportedTypes
    THEN [class |-> NoHandler, warnings |-> 1, errors |-> 0]
    ELSE IF handler_type \in fails
    THEN [class |-> NoHandler, warnings |-> 0, errors |-> 1]
    ELSE [class |-> handler_type, warnings |-> 0, errors |-> 0]

\* _ensure_handler_loaded, the branch that loads: c is the class found
handler_loaded(f, handler_type, c) ==
    [handlers |-> IF c.class # NoHandler
                  THEN f.handlers \cup {handler_type} ELSE f.handlers,
     warnings |-> f.warnings + c.warnings,
     errors   |-> f.errors + c.errors,
     constructed |-> IF c.class # NoHandler
                     THEN f.constructed \cup {handler_type}
                     ELSE f.constructed]

\* _ensure_handler_loaded(handler_type) on the factory
\* f = [handlers, warnings, errors, constructed]
_ensure_handler_loaded(f, handler_type, fails) ==
    IF handler_type \in f.handlers THEN f
    ELSE handler_loaded(f, handler_type,
                        _get_handler_class(handler_type, fails))

\* get_handler without its default: the handler of the type asked for is
\* looked up again
no_default_handler(f) ==
    [f |-> f, handler |-> NoHandler, raised |-> FALSE]

\* get_handler, the default: f is the factory after
\* _ensure_handler_loaded("python_script")
default_handler(f) ==
    [f |-> f,
     handler |-> IF "python_script" \in f.handlers
                 THEN "python_script" ELSE NoHandler,
     raised |-> FALSE]

\* get_handler raising ValueError for a type that has no handler, instead
\* of defaulting to the python_script handler
handler_or_raise(f, button_type, fails) ==
    IF button_type \in f.handlers
    THEN [f |-> f, handler |-> button_type, raised |-> FALSE]
    ELSE [f |-> f, handler |-> NoHandler, raised |-> TRUE]

\* get_handler, after _ensure_handler_loaded(button_type)
handler_or_default(f, button_type, fails) ==
    IF button_type \in f.handlers
    THEN [f |-> f, handler |-> button_type, raised |-> FALSE]
    ELSE default_handler(
           _ensure_handler_loaded([f EXCEPT !.warnings = @ + 1],
                                  "python_script", fails))

\* get_handler(button_type)
get_handler(f, button_type, fails) ==
    handler_or_default(_ensure_handler_loaded(f, button_type, fails),
                       button_type, fails)

\* execute_button, after get_handler: g is what get_handler gave, raises
\* says whether the handler's execute raises; the result says whether
\* execute_button raises
call_handler(g, raises) ==
    IF g.raised
    THEN [f |-> g.f, handler |-> g.handler, executed |-> FALSE,
          raised |-> TRUE]
    ELSE IF g.handler # NoHandler
    THEN [f |-> IF raises THEN [g.f EXCEPT !.errors = @ + 1] ELSE g.f,
          handler |-> g.handler, executed |-> TRUE, raised |-> raises]
    ELSE [f |-> [g.f EXCEPT !.errors = @ + 1],
          handler |-> NoHandler, executed |-> FALSE, raised |-> FALSE]

\* cfg.get("type", "python_script")
button_type_of(cfg_type) ==
    IF cfg_type = NoType THEN "python_script" ELSE cfg_type

\* execute_button(cfg)
execute_button(handlers, cfg_type, raises, fails) ==
    call_handler(get_handler([handlers |-> handlers, warnings |-> 0,
                              errors |-> 0, constructed |-> {}],
                             button_type_of(cfg_type), fails),
                 raises)

\* ButtonManager.run_script with the try/except left out: what
\* execute_button raises leaves run_script
run_script_unguarded(e, cfg_type, raises) ==
    [handlers |-> e.f.handlers, constructed |-> e.f.constructed,
     type |-> cfg_type, resolved |-> e.handler,
     executed |-> e.executed, handler_raised |-> e.executed /\ raises,
     warnings |-> e.f.warnings, errors |-> e.f.errors,
     reported |-> 0, escaped |-> e.raised]

\* ButtonManager.run_script, its try/except around the result e of
\* execute_button: logger.error and messagebox.showerror
run_script_guarded(e, cfg_type, raises) ==
    [handlers |-> e.f.handlers, constructed |-> e.f.constructed,
     type |-> cfg_type, resolved |-> e.handler,
     executed |-> e.executed, handler_raised |-> e.executed /\ raises,
     warnings |-> e.f.warnings,
     errors |-> IF e.raised THEN e.f.errors + 1 ELSE e.f.errors,
     reported |-> IF e.raised THEN 1 ELSE 0,
     escaped |-> FALSE]

\* ButtonManager.run_script(cfg)
button_run_script(handlers, cfg_type, raises, fails) ==
    run_script_guarded(execute_button(handlers, cfg_type, raises, fails),
                       cfg_type, raises)

\* the handler classes constructed so far, after one more instance of
\* every type in types
constructs(count, types) ==
    [t \in DOMAIN count |->
        IF t \in types THEN count[t] + 1 ELSE count[t]]

\* run_script has run on the given activation path; r is what it did
Ran(r, path) ==
    /\ _handlers' = r.handlers
    /\ instances' = constructs(instances, r.constructed)
    /\ dispatch_hist' = [path |-> path, type |-> r.type,
                         resolved |-> r.resolved, executed |-> r.executed,
                         handler_raised |-> r.handler_raised,
                         warnings |-> r.warnings, errors |-> r.errors,
                         reported |-> r.reported, escaped |-> r.escaped,
                         constructed |-> r.constructed]

\* one run_script call on the given activation path
Runs(path, cfg_type, raises) ==
    Ran(button_run_script(_handlers, cfg_type, raises, import_fails), path)

\* _on_button_click, animation disabled or failed: run_script at once
on_button_click_immediate ==
    /\ \E cfg_type \in CfgTypes : \E raises \in BOOLEAN :
          Runs("click", cfg_type, raises)
    /\ UNCHANGED <<import_fails, app_after, managers, lookup_hist,
                   vars_not_dispatch>>

\* _on_button_click, animation started: self.app.after(100, run_script);
\* the handle is not kept
on_button_click_animated ==
    /\ Len(app_after) < MaxPendingClicks
    /\ \E cfg_type \in CfgTypes :
          app_after' = after(app_after, None, cfg_type, AnimationDelay)
    /\ UNCHANGED <<_handlers, import_fails, dispatch_hist, managers,
                   instances, lookup_hist, vars_not_dispatch>>

\* the event loop runs the delayed run_script
delayed_run_script ==
    /\ Due(app_after)
    /\ app_after' = Tail(app_after)
    /\ \E raises \in BOOLEAN :
          Runs("delayed_click", app_after[1].f, raises)
    /\ UNCHANGED <<import_fails, managers, lookup_hist, vars_not_dispatch>>

\* a bound shortcut or hotkey: run_script at once
on_shortcut ==
    /\ \E cfg_type \in CfgTypes : \E raises \in BOOLEAN :
          Runs("shortcut", cfg_type, raises)
    /\ UNCHANGED <<import_fails, app_after, managers, lookup_hist,
                   vars_not_dispatch>>

\* 100 ms go by; nothing is due
app_tenth_second ==
    /\ ~Due(app_after)
    /\ Len(app_after) > 0
    /\ app_after' = Elapse(app_after)
    /\ UNCHANGED <<_handlers, import_fails, dispatch_hist, managers,
                   instances, lookup_hist, vars_not_dispatch>>

NextDispatch ==
    \/ on_button_click_immediate
    \/ on_button_click_animated
    \/ delayed_run_script
    \/ on_shortcut
    \/ app_tenth_second

\* the types create_button hands to a manager of ButtonManager that is an
\* instance of the handler class of the same type (cfg type "timer" has a
\* TimerManager, which is no handler class of the factory)
ManagerTypes == {"network_speed", "ping", "pomodoro", "http_test",
                 "color_picker"}

\* the type tags of the buttons created and of the handlers asked for
LookupTypes == {"python_script", "website", "http_test", "ping",
                "invalid_type"}

\* create_button(parent, cfg, ...): _ensure_<type>_manager_loaded() for the
\* types that have a manager; an import that fails raises out of it
create_button ==
    /\ \E cfg_type \in LookupTypes :
          IF cfg_type \in ManagerTypes \ (managers \cup import_fails)
          THEN /\ managers' = managers \cup {cfg_type}
               /\ instances' = constructs(instances, {cfg_type})
          ELSE UNCHANGED <<managers, instances>>
    /\ UNCHANGED <<_handlers, import_fails, app_after, dispatch_hist,
                   lookup_hist, vars_not_dispatch>>

\* a direct get_handler(button_type) call has returned or raised; g is
\* what it did
Looked(g, button_type) ==
    /\ _handlers' = g.f.handlers
    /\ instances' = constructs(instances, g.f.constructed)
    /\ lookup_hist' = [type |-> button_type, handler |-> g.handler,
                       raised |-> g.raised, warnings |-> g.f.warnings,
                       cached |-> button_type \in _handlers]

\* factory.get_handler(button_type), called directly
get_handler_called ==
    /\ \E button_type \in LookupTypes :
          Looked(get_handler([handlers |-> _handlers, warnings |-> 0,
                              errors |-> 0, constructed |-> {}],
                             button_type, import_fails),
                 button_type)
    /\ UNCHANGED <<import_fails, app_after, dispatch_hist, managers,
                   vars_not_dispatch>>

NextFactory ==
    \/ create_button
    \/ get_handler_called
    \/ on_shortcut

(***************************************************************************)
(* Properties of the action dispatcher                                     *)
(***************************************************************************)
\* C9: on every activation path an exception raised by a handler's execute
\* is logged, reported exactly once (one error dialog) and does not leave
\* run_script; an activation whose handler does not raise reports nothing.
C9_HandlerExceptionReportedOnce ==
    /\ ~dispatch_hist.escaped
    /\ dispatch_hist.handler_raised =>
          (dispatch_hist.reported = 1 /\ dispatch_hist.errors >= 1)
    /\ (dispatch_hist.executed /\ ~dispatch_hist.handler_raised) =>
          dispatch_hist.reported = 0

\* C9, the case: the handler run by a delayed click raised
C9_DelayedClickRaised ==
    /\ dispatch_hist.path = "delayed_click"
    /\ dispatch_hist.handler_raised
    /\ dispatch_hist.reported = 1

C12_HandlerConstructedOnce ==
    \A t \in SupportedTypes :
       /\ instances[t] <= 1
       /\ instances[t] >= 1 => t \in _handlers \cup managers

(***************************************************************************)
(* Handlers that run a program: core/button_types/python_script_handler    *)
(* and core/button_types/shell_handler                                     *)
(***************************************************************************)
\* cfg["script"]: not set, a path with no file behind it, files of every
\* extension execute tells apart
Scripts == {"", "gone.py", "a.py", "a.sh", "a.bat", "a"}

\* cfg["shell_cmd"]
Commands == {"", "ls"}

NoCfg == [script |-> "", background |-> FALSE, shell_cmd |-> ""]

\* os.path.isfile that finds every path
isfile_always(script) == TRUE

\* os.path.isfile(script)
isfile(script) == script \in {"a.py", "a.sh", "a.bat", "a"}

\* os.path.splitext(script)[1].lower()
ext(script) ==
    CASE script \in {"gone.py", "a.py"} -> ".py"
      [] script = "a.sh" -> ".sh"
      [] script = "a.bat" -> ".bat"
      [] OTHER -> ""

\* what one execute call did: the message box shown, what it started,
\* whether it called open_settings, whether an exception left it, whether
\* the calling thread waited for a process to end
Did(notice, what, settings, raised) ==
    [notice |-> notice, started |-> what, settings |-> settings,
     raised |-> raised, waited |-> FALSE]

\* subprocess.run(..., capture_output=True) in a try block, and the message
\* box after it: the process is started and the caller waits until it has
\* ended, or the start raises
subprocess_run(raises) ==
    IF raises THEN Did("showerror", {}, FALSE, FALSE)
    ELSE [Did("showinfo", {"process"}, FALSE, FALSE) EXCEPT !.waited = TRUE]

\* OutputOverlay(...): the window, and the process and the reader thread
\* when run_script gets as far as starting them
OutputOverlay(launch) ==
    IF launch = "started" THEN {"overlay", "process", "thread"}
    ELSE {"overlay"}

\* PythonScriptHandler.execute(cfg).  configured is the python_executable
\* of the configuration, answer what the user answers to askyesno, found
\* whether get_python_executable finds one, launch what run_script of the
\* overlay does, raises whether Popen or subprocess.run raises
python_script_execute(cfg, configured, answer, found, launch, raises) ==
    IF cfg.script = "" \/ ~isfile(cfg.script)
    THEN Did("showwarning", {}, FALSE, FALSE)
    ELSE IF ~configured
    THEN Did("askyesno", {}, answer, FALSE)
    ELSE IF ext(cfg.script) = ".py" /\ cfg.background
    THEN IF ~found THEN Did("showerror", {}, FALSE, FALSE)
         ELSE IF raises THEN Did("none", {}, FALSE, TRUE)
         ELSE Did("showinfo", {"process"}, FALSE, FALSE)
    ELSE IF ext(cfg.script) = ".py"
    THEN Did("none", OutputOverlay(launch), FALSE, FALSE)
    ELSE subprocess_run(raises)

\* ShellHandler.execute(cfg)
shell_execute(cfg, raises) ==
    IF cfg.shell_cmd = ""
    THEN Did("showerror", {}, FALSE, FALSE)
    ELSE subprocess_run(raises)

\* the state after an execute call that did d
Executed(handler, cfg, d) ==
    /\ execute_hist.calls < MaxExecutions
    /\ started' = [k \in DOMAIN started |->
                      IF k \in d.started THEN started[k] + 1 ELSE started[k]]
    /\ settings_dialog' = (settings_dialog \/ d.settings)
    /\ execute_hist' = [calls |-> execute_hist.calls + 1,
                        handler |-> handler, cfg |-> cfg,
                        configured |-> python_executable, did |-> d]
    /\ UNCHANGED <<python_executable, vars_not_execute>>

\* a python_script button is run
run_python_script ==
    \E script \in Scripts, background, answer, found, raises \in BOOLEAN,
       launch \in LaunchOutcomes :
       LET cfg == [NoCfg EXCEPT !.script = script,
                                !.background = background]
       IN  Executed("python_script", cfg,
                    python_script_execute(cfg, python_executable, answer,
                                          found, launch, raises))

\* a shell button is run
run_shell ==
    \E cmd \in Commands, raises \in BOOLEAN :
       LET cfg == [NoCfg EXCEPT !.shell_cmd = cmd]
       IN  Executed("shell", cfg, shell_execute(cfg, raises))

\* SettingsManager.open_settings from the settings button of the top bar
open_settings ==
    /\ ~settings_dialog
    /\ settings_dialog' = TRUE
    /\ UNCHANGED <<python_executable, started, execute_hist,
                   vars_not_execute>>

\* SettingsDialog.save: the entry's value is stored and the dialog destroyed
save_settings ==
    /\ settings_dialog
    /\ \E value \in BOOLEAN : python_executable' = value
    /\ settings_dialog' = FALSE
    /\ UNCHANGED <<started, execute_hist, vars_not_execute>>

\* the settings dialog is closed without saving
_on_settings_close ==
    /\ settings_dialog
    /\ settings_dialog' = FALSE
    /\ UNCHANGED <<python_executable, started, execute_hist,
                   vars_not_execute>>

NextExecute ==
    \/ run_python_script
    \/ run_shell
    \/ open_settings
    \/ save_settings
    \/ _on_settings_close

\* the last execute call was given a configuration whose required field is
\* missing or invalid
RequiredFieldMissing ==
    \/ /\ execute_hist.handler = "python_script"
       /\ \/ execute_hist.cfg.script = ""
          \/ execute_hist.cfg.script = "gone.py"
          \/ ~execute_hist.configured
    \/ /\ execute_hist.handler = "shell"
       /\ execute_hist.cfg.shell_cmd = ""

\* C19: when the required field of a button is missing or invalid (run
\* script: no script path, no file at the path, no Python executable
\* configured; shell: empty command) execute shows a message box and
\* returns without having started a process, an overlay or a thread.
C19_MissingFieldNoticeAndNothingStarted ==
    RequiredFieldMissing =>
        /\ execute_hist.did.notice \in {"showwarning", "askyesno", "showerror"}
        /\ execute_hist.did.started = {}
        /\ ~execute_hist.did.raised

\* C19, reached: a script that exists is refused for want of a configured
\* Python executable, after calls that did start a process and an overlay
C19_EveryMissingFieldRefused ==
    /\ execute_hist.handler = "python_script"
    /\ execute_hist.cfg.script = "a.py"
    /\ ~execute_hist.configured
    /\ execute_hist.did.notice = "askyesno"
    /\ started.process > 0
    /\ started.overlay > 0

(***************************************************************************)
(* HTTP test button: http_test_handler.create_http_test_button             *)
(***************************************************************************)
\* auto-clear delay of an HTTP result (btn.after(60000, ...)), in units of
\* 20 seconds
HttpClearDelay == 3

\* an address is its scheme prefix and what follows it
Url(scheme, rest) == [scheme |-> scheme, rest |-> rest]
NoUrl == Url("none", "")

\* the addresses a button may be configured with
Urls == { Url(s, "example.com") : s \in {"", "http://", "https://"} }

\* response times measured, ms
ResponseTimes == {240, 1500}

\* the workers of the HTTP test button, one per test started
Testers == 1..MaxTests

\* one requests.get call: the address asked, certificate verification on
\* or off, and what came of it
Request(url, verify, outcome) ==
    [url |-> url, verify |-> verify, outcome |-> outcome]
NoRequest == Request(NoUrl, FALSE, "none")

\* what requests.get may do: answer with a status below 400, answer with
\* one from 400, raise SSLError (a TLS address only), raise another
\* RequestException, raise anything else
Responses(url) ==
    {"ok", "status400", "RequestException", "Exception"}
        \cup (IF url.scheme = "https://" THEN {"SSLError"} ELSE {})

Answered(outcome) == outcome \in {"ok", "status400"}

\* the tuple stored in state["results"]
HttpResults(status, response_time, https_status, cert_valid) ==
    [status |-> status, response_time |-> response_time,
     https_status |-> https_status, cert_valid |-> cert_valid]

\* response.status_code < 400
Status(outcome) == IF outcome = "ok" THEN "success" ELSE "failed"

\* https_url: the address as given if it carries a scheme, with https://
\* put in front otherwise
https_url(url) ==
    IF url.scheme \in {"http://", "https://"} THEN url
    ELSE Url("https://", url.rest)

\* http_url: the address as given if it starts with http://, with https://
\* replaced by http://, or with http:// put in front
http_url(url) ==
    IF url.scheme = "http://" THEN url
    ELSE IF url.scheme = "https://" THEN Url("http://", url.rest)
    ELSE Url("http://", url.rest)

\* time_str: milliseconds without decimals below one second, seconds with
\* one decimal (n counts tenths) from one second
time_str(response_time) ==
    IF response_time < 1000 THEN [n |-> response_time, unit |-> "ms"]
    ELSE [n |-> (response_time + 50) \div 100, unit |-> "s"]
NoTime == [n |-> 0, unit |-> ""]

\* urlparse(test_url).netloc, or the first path segment without a scheme
domain(url) == url.rest

HttpLabel(kind, icon, host, time) ==
    [kind |-> kind, icon |-> icon, host |-> host, time |-> time]

\* lock_icon
lock_icon(results) ==
    IF results.https_status = "https"
    THEN IF results.cert_valid THEN "locked" ELSE "unlocked"
    ELSE "globe"

\* update_label: the text for the state
http_render(state) ==
    IF state.running THEN HttpLabel("working", "", "", NoTime)
    ELSE IF state.results # NoResults
    THEN IF state.results.status = "success"
         THEN HttpLabel("result", lock_icon(state.results),
                        domain(test_url),
                        time_str(state.results.response_time))
         ELSE HttpLabel("failed", "", "", NoTime)
    ELSE HttpLabel("orig_label", "", "", NoTime)

\* the button is put in the grid for a cfg
create_http_test_button ==
    /\ test_url = NoUrl
    /\ \E url \in Urls : test_url' = url
    /\ http_label' = HttpLabel("orig_label", "", "", NoTime)
    /\ UNCHANGED <<http, http_thread, http_after, http_hist>>
    /\ UNCHANGED vars_not_http

\* start_http_test, on <Button-1>: nothing while a test runs
start_http_test ==
    /\ test_url # NoUrl
    /\ ~http.running
    /\ http_hist.tests < MaxTests
    /\ LET w == http_hist.tests + 1
           state == [http EXCEPT !.clear_job = None, !.running = TRUE,
                                 !.results = NoResults]
       IN  /\ http_after' = IF http.clear_job # None
                            THEN after_cancel(http_after, http.clear_job)
                            ELSE http_after
           /\ http' = state
           /\ http_label' = http_render(state)
           /\ http_thread' = [http_thread EXCEPT ![w] =
                                 [pc |-> "https", writes |-> 0]]
           /\ http_hist' = [http_hist EXCEPT !.tests = w]
    /\ UNCHANGED test_url
    /\ UNCHANGED vars_not_http

\* a worker stores a result
Writes(w, pc, results, request) ==
    /\ http' = [http EXCEPT !.results = results]
    /\ http_thread' = [http_thread EXCEPT ![w] =
                          [pc |-> pc, writes |-> @.writes + 1]]
    /\ http_hist' = [http_hist EXCEPT !.request = request]

\* a worker moves on without a result
Moves(w, pc, request) ==
    /\ http_thread' = [http_thread EXCEPT ![w].pc = pc]
    /\ http_hist' = [http_hist EXCEPT !.request = request]
    /\ UNCHANGED http

\* run_http_test: the request with certificate validation
run_http_test_verified(w) ==
    /\ http_thread[w].pc = "https"
    /\ \E outcome \in Responses(https_url(test_url)), t \in ResponseTimes :
          LET request == Request(https_url(test_url), TRUE, outcome)
          IN  CASE Answered(outcome) ->
                      Writes(w, "finally",
                             HttpResults(Status(outcome), t, "https", TRUE),
                             request)
                [] outcome = "SSLError" -> Moves(w, "unverified", request)
                [] outcome = "RequestException" -> Moves(w, "plain", request)
                [] OTHER -> Moves(w, "except", request)
    /\ UNCHANGED <<test_url, http_label, http_after>>
    /\ UNCHANGED vars_not_http

\* run_http_test: after an SSLError, the request without validation
run_http_test_unverified(w) ==
    /\ http_thread[w].pc = "unverified"
    /\ \E outcome \in Responses(https_url(test_url)), t \in ResponseTimes :
          LET request == Request(https_url(test_url), FALSE, outcome)
          IN  IF Answered(outcome)
              THEN Writes(w, "finally",
                          HttpResults(Status(outcome), t, "https", FALSE),
                          request)
              ELSE Moves(w, "plain", request)
    /\ UNCHANGED <<test_url, http_label, http_after>>
    /\ UNCHANGED vars_not_http

\* run_http_test: the request over plain HTTP
run_http_test_plain(w) ==
    /\ http_thread[w].pc = "plain"
    /\ \E outcome \in Responses(http_url(test_url)), t \in ResponseTimes :
          LET request == Request(http_url(test_url), TRUE, outcome)
          IN  IF Answered(outcome)
              THEN Writes(w, "finally",
                          HttpResults(Status(outcome), t, "http", FALSE),
                          request)
              ELSE Writes(w, "finally",
                          HttpResults("failed", 0, "http", FALSE), request)
    /\ UNCHANGED <<test_url, http_label, http_after>>
    /\ UNCHANGED vars_not_http

\* run_http_test: the outer except
run_http_test_except(w) ==
    /\ http_thread[w].pc = "except"
    /\ Writes(w, "finally", HttpResults("failed", 0, "unknown", FALSE),
              http_hist.request)
    /\ UNCHANGED <<test_url, http_label, http_after>>
    /\ UNCHANGED vars_not_http

\* run_http_test, finally: state["running"] = False
run_http_test_finally(w) ==
    /\ http_thread[w].pc = "finally"
    /\ http' = [http EXCEPT !.running = FALSE]
    /\ http_thread' = [http_thread EXCEPT ![w].pc = "schedule"]
    /\ UNCHANGED <<test_url, http_label, http_after, http_hist>>
    /\ UNCHANGED vars_not_http

\* run_http_test, finally: update_label posted, the auto-clear scheduled
run_http_test_schedule(w) ==
    /\ http_thread[w].pc = "schedule"
    /\ LET posted == after(http_after, NewHandle(http_after, {http.clear_job}),
                           "update_label", 0)
           kept == IF http.clear_job # None
                   THEN after_cancel(posted, http.clear_job)
                   ELSE posted
           h == NewHandle(kept, {})
       IN  /\ http_after' = after(kept, h, "clear_results", HttpClearDelay)
           /\ http' = [http EXCEPT !.clear_job = h]
    /\ http_thread' = [http_thread EXCEPT ![w].pc = "done"]
    /\ UNCHANGED <<test_url, http_label, http_hist>>
    /\ UNCHANGED vars_not_http

\* the event loop runs a posted update_label
http_update_label ==
    /\ Due(http_after)
    /\ http_after[1].f = "update_label"
    /\ http_after' = Tail(http_after)
    /\ http_label' = http_render(http)
    /\ UNCHANGED <<test_url, http, http_thread, http_hist>>
    /\ UNCHANGED vars_not_http

\* the event loop runs clear_results
http_clear_results ==
    /\ Due(http_after)
    /\ http_after[1].f = "clear_results"
    /\ LET fired == Tail(http_after)
           state == [http EXCEPT !.results = NoResults, !.clear_job = None]
       IN  /\ http_after' = IF http.clear_job # None
                            THEN after_cancel(fired, http.clear_job)
                            ELSE fired
           /\ http' = state
           /\ http_label' = http_render(state)
    /\ UNCHANGED <<test_url, http_thread, http_hist>>
    /\ UNCHANGED vars_not_http

\* 20 seconds pass
http_time_passes ==
    /\ http_after # << >>
    /\ ~Due(http_after)
    /\ http_after' = Elapse(http_after)
    /\ UNCHANGED <<test_url, http, http_label, http_thread, http_hist>>
    /\ UNCHANGED vars_not_http

NextHttp ==
    \/ create_http_test_button
    \/ start_http_test
    \/ \E w \in Testers : run_http_test_verified(w)
    \/ \E w \in Testers : run_http_test_unverified(w)
    \/ \E w \in Testers : run_http_test_plain(w)
    \/ \E w \in Testers : run_http_test_except(w)
    \/ \E w \in Testers : run_http_test_finally(w)
    \/ \E w \in Testers : run_http_test_schedule(w)
    \/ http_update_label
    \/ http_clear_results
    \/ http_time_passes

\* the request that produced the stored result went over TLS
UsedTls == http_hist.request.url.scheme = "https://"

\* what the button is to show for the request that produced the result
Classified ==
    IF http_hist.request.outcome # "ok" THEN "failed"
    ELSE IF ~UsedTls THEN "globe"
    ELSE IF http_hist.request.verify THEN "locked"
    ELSE "unlocked"

\* what the button shows for a stored result
Shown(label) == IF label.kind = "result" THEN label.icon ELSE label.kind

\* C24: every run of an HTTP test writes exactly one result, and the result
\* is rendered by the request that produced it: the closed lock for a
\* success over TLS with the certificate validated, the open lock for a
\* success over TLS without validation, the globe for a success over plain
\* HTTP, failed for a status from 400 and for no answer at all.
C24_HttpClassification ==
    /\ \A w \in Testers :
          http_thread[w].pc \in {"finally", "schedule", "done"}
             => http_thread[w].writes = 1
    /\ http.results # NoResults
          => Shown(http_render([http EXCEPT !.running = FALSE])) = Classified
    /\ http_label.kind \in {"result", "failed"}
          => Shown(http_label) = Classified

\* C33: no step of the reader thread, on any of its paths, changes the
\* overlay object or its text widget: whatever the reader does to the
\* overlay it does by a callback it posts.
C33_ReaderOnlyPosts ==
    [][(\/ read_output_line
        \/ read_output_eof
        \/ read_output_wait
        \/ read_output_finalize
        \/ read_output_raises
        \/ read_output_except) =>
          /\ overlay' = overlay
          /\ overlay_text' = overlay_text]_vars

\* C34: an overlay has at most one process and one reader thread, both
\* started by the run_script call of its constructor and only when the
\* launch succeeded; once the constructor has returned, no operation
\* starts a process or a reader thread.
C34_OneSessionOneReader ==
    /\ [](/\ overlay_hist.readers \in {0, 1}
          /\ overlay_ui = "init" =>
                /\ overlay_hist.readers = 0
                /\ process.state = "none"
          /\ overlay_ui # "init" =>
                /\ (overlay_hist.launch = "started")
                      <=> (overlay_hist.readers = 1)
                /\ (overlay_hist.launch = "started")
                      <=> (process.state # "none")
                /\ (overlay_hist.launch = "started")
                      <=> (reader.pc # "unborn"))
    /\ [][overlay_ui # "init" =>
             /\ overlay_hist'.readers = overlay_hist.readers
             /\ overlay_hist'.launch = overlay_hist.launch
             /\ overlay'.proc = overlay.proc
             /\ reader.pc = "exited" => reader'.pc = "exited"
             /\ process.state = "exited" => process'.state = "exited"]_vars

\* C34, the case: a session that launched was sent input, its reader ran
\* to its end and its window was closed, with one reader thread ever
C34_SessionUsedAndClosed ==
    /\ overlay_hist.launch = "started"
    /\ overlay_hist.answered
    /\ reader.pc = "exited"
    /\ overlay_hist.finalized
    /\ overlay.withdrawn
    /\ overlay_hist.readers = 1

\* C28: the UI thread, which runs every execute call and the close of the
\* output window, never waits for a process to end: no execute call has
\* waited for the process it started, and the UI thread is never inside
\* the wait of close.
C28_UiThreadNeverWaits ==
    /\ ~execute_hist.did.waited
    /\ overlay_ui # "closing"

(***************************************************************************)
(* Specifications, one per component                                       *)
(***************************************************************************)
\* The application with one button of each kind built and no action
\* dispatched yet, as the constructors leave it.  The arguments are the
\* configurations looked at: the cfg["auto_advance"] values, the
\* cfg["timer_duration"] values and the sets of handler modules whose
\* import fails.
Init(auto_advances, durations, failing, kinds) ==
    /\ ping = NewState
    /\ ping_label = [kind |-> "orig_label", ping_time |-> 0, by |-> 0]
    /\ ping_thread = [w \in Workers |-> "unborn"]
    /\ ping_after = << >>
    /\ ping_hist = [started |-> 0, posted_by |-> 0, started_then |-> 0,
                    tried |-> 0, blocking |-> "none", wrote |-> "nothing",
                    escaping |-> {}, tcl_error |-> FALSE]
    /\ probe_kind \in kinds
    /\ generation = 1
    /\ discarded = [g \in 1..MaxRefreshes |-> NewState]
    /\ ping_owner = [w \in Workers |-> 0]
    /\ pomodoro = Idle
    /\ pomodoro_label = pomodoro_render(Idle)
    /\ pomodoro_after = << >>
    /\ auto_advance \in auto_advances
    /\ pomodoro_armed = FALSE
    /\ pomodoro_hist = [event |-> "init", gestures |-> 0,
                        done_phase |-> "none", undisturbed |-> FALSE,
                        work_done |-> 0, since_reset |-> FALSE,
                        advanced_from |-> "none", skipped_from |-> "none",
                        completions |-> 0]
    /\ total_seconds \in durations
    /\ timer = TimerIdle(total_seconds)
    /\ timer_label = [text |-> "orig_label", time |-> 0]
    /\ timer_after = << >>
    /\ timer_armed = FALSE
    /\ timer_hist = [elapsed |-> 0, clean |-> FALSE, finished |-> 0,
                     bells |-> 0, decrements |-> 0, reset_from |-> "none",
                     unpaused |-> 0]
    /\ overlay = [proc |-> "None", waiting_for_input |-> FALSE,
                  error_occurred |-> FALSE, user_closed |-> FALSE,
                  title_error |-> FALSE, input_disabled |-> FALSE,
                  withdrawn |-> FALSE]
    /\ overlay_text = << >>
    /\ overlay_after = << >>
    /\ overlay_ui = "init"
    /\ reader = [pc |-> "unborn", output_received |-> FALSE,
                 error_occurred |-> FALSE, exit_code |-> 0]
    /\ process = [state |-> "none", pipe |-> << >>, printed |-> 0,
                  exit_code |-> 0, signalled |-> "none", stdin |-> << >>]
    /\ overlay_hist = [finalized |-> FALSE, auto_close |-> FALSE,
                       closed_at_classify |-> FALSE, launch |-> "none",
                       readers |-> 0, read |-> << >>,
                       closed_by |-> "none", since_final |-> 0,
                       answered |-> FALSE]
    /\ _handlers = {}
    /\ import_fails \in failing
    /\ app_after = << >>
    /\ dispatch_hist = [path |-> "none", type |-> NoType,
                        resolved |-> NoHandler, executed |-> FALSE,
                        handler_raised |-> FALSE, warnings |-> 0,
                        errors |-> 0, reported |-> 0, escaped |-> FALSE,
                        constructed |-> {}]
    /\ managers = {}
    /\ instances = [t \in SupportedTypes |-> 0]
    /\ lookup_hist = [type |-> NoType, handler |-> NoHandler,
                      raised |-> FALSE, warnings |-> 0, cached |-> FALSE]
    /\ python_executable = FALSE
    /\ settings_dialog = FALSE
    /\ started = [process |-> 0, overlay |-> 0, thread |-> 0]
    /\ execute_hist = [calls |-> 0, handler |-> "none", cfg |-> NoCfg,
                       configured |-> FALSE,
                       did |-> Did("none", {}, FALSE, FALSE)]
    /\ test_url = NoUrl
    /\ http = [running |-> FALSE, clear_job |-> None, results |-> NoResults]
    /\ http_label = HttpLabel("none", "", "", NoTime)
    /\ http_thread = [w \in Testers |-> [pc |-> "unborn", writes |-> 0]]
    /\ http_after = << >>
    /\ http_hist = [tests |-> 0, request |-> NoRequest]

\* the probe button used; every other component left alone
SpecPing == Init({TRUE}, {0}, {{}}, {"ping"}) /\ [][NextPing]_vars

\* a ping button or a network speed button used, in an application whose
\* threads keep running: a worker that can take its next step takes it (the
\* blocking operations carry timeouts)
SpecProbeLive ==
    /\ Init({TRUE}, {0}, {{}}, ProbeKinds)
    /\ [][NextPing]_vars
    /\ \A w \in Workers : WF_vars(run_ping(w))

\* a ping button used while refresh_grid rebuilds the grid under it
SpecGrid == Init({TRUE}, {0}, {{}}, {"ping"}) /\ [][NextGrid]_vars

\* the pomodoro button used, with and without auto_advance
SpecPomodoro == Init(BOOLEAN, {0}, {{}}, {"ping"}) /\ [][NextPomodoro]_vars

\* the timer button used, with every duration up to MaxDuration seconds
SpecTimer == Init({TRUE}, 0..MaxDuration, {{}}, {"ping"}) /\ [][NextTimer]_vars

\* one countdown button used: a timer of any duration up to MaxDuration
\* seconds, or a pomodoro with or without auto_advance
SpecCountdown ==
    Init(BOOLEAN, 0..MaxDuration, {{}}, {"ping"}) /\ [][NextCountdown]_vars

\* one process session
SpecOverlay == Init({TRUE}, {0}, {{}}, {"ping"}) /\ [][NextOverlay]_vars

\* the dispatcher used, with and without the third-party packages
SpecDispatch ==
    Init({TRUE}, {0}, SUBSET ThirdPartyTypes, {"ping"}) /\ [][NextDispatch]_vars

\* buttons created, handlers asked for and shortcuts pressed
SpecFactory ==
    Init({TRUE}, {0}, SUBSET ThirdPartyTypes, {"ping"}) /\ [][NextFactory]_vars

\* an HTTP test button created for one of the addresses and used
SpecHttp == Init({TRUE}, {0}, {{}}, {"ping"}) /\ [][NextHttp]_vars

\* python_script and shell buttons run, the settings dialog used
SpecExecute == Init({TRUE}, {0}, {{}}, {"ping"}) /\ [][NextExecute]_vars

\* one process session in which the reader thread and the event loop keep
\* running: a thread that can take its next step takes it, a callback that
\* is due is run, time passes, a blocking wait returns
SpecOverlayLive ==
    /\ Init({TRUE}, {0}, {{}}, {"ping"})
    /\ [][NextOverlay]_vars
    /\ WF_vars(read_output_line)
    /\ WF_vars(read_output_eof)
    /\ WF_vars(read_output_wait)
    /\ WF_vars(read_output_finalize)
    /\ WF_vars(read_output_except)
    /\ WF_vars(append_output)
    /\ WF_vars(finalize_output)
    /\ WF_vars(auto_close)
    /\ WF_vars(close_waited)
    /\ WF_vars(close_kills)
    /\ WF_vars(overlay_second)

====
